---- MODULE Spec2Model ----
(***************************************************************************)
(* Model of llms-fetch-mcp: the table-of-contents engine (src/src/toc.rs)  *)
(* and the URL variations, cache paths and fetch tool (src/src/main.rs).    *)
(*                                                                         *)
(* Strings are sequences of bytes.  A byte is written as a short string:   *)
(* an ASCII byte is the character itself ("#", " ", "a"), the line feed is *)
(* "LF", the carriage return "CR", the backquote "BQ", and a byte of a     *)
(* multi-byte UTF-8 character is its hexadecimal value ("E2", "80", "8B"). *)
(* A char of a parser text event is named by its character ("a") or its    *)
(* code point ("U+200B").                                                  *)
(***************************************************************************)
EXTENDS Integers, Sequences, FiniteSets, TLC

(***************************************************************************)
(* Bounds of the model                                                     *)
(***************************************************************************)
\* blocks (headings, paragraphs) of a document handed to generate_toc
MaxBlocks == 2
\* deepest heading of such a document
MaxDocLevel == 3
\* the values of toc_budget are 0, BudgetStep, .. , MaxBudgetSteps * BudgetStep
BudgetStep == 10
MaxBudgetSteps == 4
\* the values of full_content_threshold are 0 and MaxThreshold
MaxThreshold == 8
\* paragraphs before the heading of a document handed to extract_headings
MaxPrefix == 1
\* inline items of that heading
MaxItems == 2
\* events of an unconstrained event stream
MaxEvents == 5
\* headings of a list handed to find_optimal_level
MaxHeadings == 2
\* path segments of a URL
MaxSegments == 4
\* trailing slashes of a URL
MaxSlashes == 2
\* path segments of a URL handed to url_to_path
MaxPathSegments == 3
\* callers of fetch
MaxCallers == 2

None == [some |-> FALSE]
Some(v) == [some |-> TRUE, val |-> v]

(***************************************************************************)
(* Bytes, chars and the str methods the code uses                          *)
(***************************************************************************)
\* UTF-8 continuation bytes (0x80..0xBF) of the alphabet
ContinuationBytes == {"80", "86", "8B", "92", "A9"}

\* str::is_char_boundary
is_char_boundary(s, i) ==
    \/ i = 0
    \/ i = Len(s)
    \/ i > 0 /\ i < Len(s) /\ s[i + 1] \notin ContinuationBytes

\* str::get(a..b): None unless a <= b <= len and both are char boundaries
str_get(s, a, b) ==
    IF a <= b /\ b <= Len(s) /\ is_char_boundary(s, a) /\ is_char_boundary(s, b)
    THEN Some(SubSeq(s, a + 1, b))
    ELSE None

\* bytes of the white-space chars of the alphabet (char::is_whitespace)
WhitespaceBytes == {" ", "LF", "CR"}

RECURSIVE trim_start(_)
trim_start(s) ==
    IF s # <<>> /\ Head(s) \in WhitespaceBytes THEN trim_start(Tail(s)) ELSE s

RECURSIVE trim_end(_)
trim_end(s) ==
    IF s # <<>> /\ s[Len(s)] \in WhitespaceBytes
    THEN trim_end(SubSeq(s, 1, Len(s) - 1))
    ELSE s

\* mutant of the trim: only the start of the string is trimmed
TrimStartOnly(s) == trim_start(s)

\* str::trim
trim(s) == trim_end(trim_start(s))

\* mutant of the count: a carriage return counted as a line of its own
CountNewlinesAndReturns(s, from, to) ==
    Cardinality({i \in (from + 1)..to : s[i] \in {"LF", "CR"}})

\* markdown[from..to].chars().filter(|&c| c == '\n').count()
CountNewlines(s, from, to) ==
    Cardinality({i \in (from + 1)..to : s[i] = "LF"})

\* chars that char::is_whitespace accepts, among the chars of text events
WhitespaceChars == {" ", "LF", "CR"}
\* the four code points is_empty_or_invisible lists
InvisibleChars == {"U+200B", "U+FEFF", "U+200C", "U+200D"}

is_empty_or_invisible(text) ==
    \A i \in DOMAIN text : text[i] \in WhitespaceChars \cup InvisibleChars

(***************************************************************************)
(* The event source: Parser::new_ext(markdown, Options::all())             *)
(*                       .into_offset_iter()                               *)
(*                                                                         *)
(* A document is given by its structure, a sequence of blocks, each with   *)
(* its inline items and its line ending.  Unparse gives the bytes of the   *)
(* document and ParseEvents the (event, byte range) pairs the parser       *)
(* yields for them: the events of the document tree in pre-order, a        *)
(* container's Start and End both carrying the range of the whole          *)
(* container, a block's range running to the end of its last line          *)
(* (line ending included), a setext heading's over its underline.          *)
(***************************************************************************)
\* HeadingLevel::H1 .. HeadingLevel::H6
HeadingLevels == {"H1", "H2", "H3", "H4", "H5", "H6"}

\* the level the parser reports for a heading of depth n
HeadingLevelOf(n) == <<"H1", "H2", "H3", "H4", "H5", "H6">>[n]

\* an event and its byte range; level is "" and text empty where the event has none
Event(kind, start, end, level, text) ==
    [kind |-> kind, start |-> start, end |-> end, level |-> level, text |-> text]

\* a line ending: "\n", "\r\n", or none at the end of the input
EolBytes(eol) ==
    CASE eol = "LF" -> <<"LF">>
      [] eol = "CRLF" -> <<"CR", "LF">>
      [] OTHER -> <<>>

\* the bytes of one inline item
InlineBytes(item, eol) ==
    CASE item = "word" -> <<"a">>
      [] item = "emptyLink" -> <<"[", "]", "(", "u", ")">>
      [] item = "zwspLink" -> <<"[", "E2", "80", "8B", "]", "(", "u", ")">>
      [] item = "spaceLink" -> <<"[", " ", "]", "(", "u", ")">>
      [] item = "textLink" -> <<"[", "a", "]", "(", "u", ")">>
      [] item = "codeLink" -> <<"[", "BQ", "a", "BQ", "]", "(", "u", ")">>
      [] item = "mathLink" -> <<"[", "$", "a", "$", "]", "(", "u", ")">>
      [] item = "imageLink" ->
            <<"[", "!", "[", "]", "(", "u", ")", "]", "(", "u", ")">>
      \* two lines of text: "a", a line ending, "a"
      [] item = "twoLines" -> <<"a">> \o EolBytes(eol) \o <<"a">>

\* the events of one inline item that starts at byte p
InlineEvents(item, p, eol) ==
    LET n == Len(InlineBytes(item, eol))
        link(inner) == <<Event("StartLink", p, p + n, "", <<>>)>> \o inner
                       \o <<Event("EndLink", p, p + n, "", <<>>)>>
    IN CASE item = "word" -> <<Event("Text", p, p + 1, "", <<"a">>)>>
         [] item = "emptyLink" -> link(<<>>)
         [] item = "zwspLink" ->
               link(<<Event("Text", p + 1, p + 4, "", <<"U+200B">>)>>)
         [] item = "spaceLink" ->
               link(<<Event("Text", p + 1, p + 2, "", <<" ">>)>>)
         [] item = "textLink" -> link(<<Event("Text", p + 1, p + 2, "", <<"a">>)>>)
         [] item = "codeLink" -> link(<<Event("Code", p + 1, p + 4, "", <<"a">>)>>)
         \* Event::InlineMath
         [] item = "mathLink" -> link(<<Event("Other", p + 1, p + 4, "", <<"a">>)>>)
         \* Event::Start(Tag::Image), Event::End(TagEnd::Image), no alt text
         [] item = "imageLink" ->
               link(<<Event("Other", p + 1, p + 7, "", <<>>),
                      Event("Other", p + 1, p + 7, "", <<>>)>>)
         \* Event::Text, Event::SoftBreak, Event::Text
         [] item = "twoLines" ->
               <<Event("Text", p, p + 1, "", <<"a">>),
                 Event("Other", p + 1, p + n - 1, "", <<>>),
                 Event("Text", p + n - 1, p + n, "", <<"a">>)>>

\* inline items are separated by one space
Separator(prev, next) == <<" ">>

RECURSIVE ItemsBytes(_, _)
ItemsBytes(items, eol) ==
    IF items = <<>> THEN <<>>
    ELSE IF Len(items) = 1 THEN InlineBytes(items[1], eol)
    ELSE InlineBytes(items[1], eol) \o Separator(items[1], items[2])
         \o ItemsBytes(Tail(items), eol)

RECURSIVE ItemsEvents(_, _, _)
ItemsEvents(items, p, eol) ==
    IF items = <<>> THEN <<>>
    ELSE IF Len(items) = 1 THEN InlineEvents(items[1], p, eol)
    ELSE InlineEvents(items[1], p, eol)
         \o ItemsEvents(Tail(items),
                        p + Len(InlineBytes(items[1], eol))
                          + Len(Separator(items[1], items[2])),
                        eol)

Hashes(level) == [i \in 1..level |-> "#"]

\* the bytes from the first byte of a heading to the last byte of its content:
\* the marker and the items of an ATX heading, the items of a setext heading
HeadingPrefix(b) ==
    IF b.kind = "atx"
    THEN Hashes(b.level) \o (IF b.items = <<>> THEN <<>> ELSE <<" ">>)
    ELSE <<>>

\* the bytes of one block; a paragraph is closed by a blank line
BlockBytes(b) ==
    CASE b.kind = "atx" ->
            HeadingPrefix(b) \o ItemsBytes(b.items, b.eol) \o EolBytes(b.eol)
      [] b.kind = "setext" ->
            ItemsBytes(b.items, b.eol) \o EolBytes(b.eol)
            \o <<IF b.level = 1 THEN "=" ELSE "-">> \o EolBytes(b.eol)
      [] b.kind = "para" ->
            ItemsBytes(b.items, b.eol) \o EolBytes(b.eol) \o EolBytes(b.eol)

\* the end of the byte range of the block that starts at p
BlockEnd(b, p) ==
    IF b.kind = "para"
    THEN p + Len(ItemsBytes(b.items, b.eol)) + Len(EolBytes(b.eol))
    ELSE p + Len(BlockBytes(b))

\* the events of the block that starts at byte p
BlockEvents(b, p) ==
    LET q == BlockEnd(b, p)
        inner == ItemsEvents(b.items, p + Len(HeadingPrefix(b)), b.eol)
    IN IF b.kind = "para"
       \* Event::Start(Tag::Paragraph) .. Event::End(TagEnd::Paragraph)
       THEN <<Event("Other", p, q, "", <<>>)>> \o inner
            \o <<Event("Other", p, q, "", <<>>)>>
       ELSE <<Event("StartHeading", p, q, HeadingLevelOf(b.level), <<>>)>>
            \o inner
            \o <<Event("EndHeading", p, q, HeadingLevelOf(b.level), <<>>)>>

RECURSIVE Unparse(_)
Unparse(doc) ==
    IF doc = <<>> THEN <<>> ELSE BlockBytes(Head(doc)) \o Unparse(Tail(doc))

RECURSIVE EventsFrom(_, _)
EventsFrom(doc, p) ==
    IF doc = <<>> THEN <<>>
    ELSE BlockEvents(Head(doc), p)
         \o EventsFrom(Tail(doc), p + Len(BlockBytes(Head(doc))))

ParseEvents(doc) == EventsFrom(doc, 0)

(***************************************************************************)
(* extract_headings: the state of the pass and its handlers                *)
(***************************************************************************)
\* mutant of the match: only three levels told apart
LevelNumThreeLevels(level) ==
    CASE level = "H1" -> 1
      [] level = "H2" -> 2
      [] OTHER -> 3

\* match heading.level { HeadingLevel::H1 => 1, ... }
level_num(level) ==
    CASE level = "H1" -> 1
      [] level = "H2" -> 2
      [] level = "H3" -> 3
      [] level = "H4" -> 4
      [] level = "H5" -> 5
      [] level = "H6" -> 6

saturating_sub(a, b) == IF a > b THEN a - b ELSE 0

\* the state of the pass when it starts
ExtractInit ==
    [headings |-> <<>>, current_heading |-> None, current_line |-> 1, last_pos |-> 0]

\* markdown[last_pos..range.start] is a valid slice
SliceOk(md, x, ev) ==
    ev.start > x.last_pos =>
        /\ ev.start <= Len(md)
        /\ is_char_boundary(md, x.last_pos)
        /\ is_char_boundary(md, ev.start)

\* mutant of the bookkeeping: last_pos follows the event also backwards
TrackLineNoMax(md, x, ev) ==
    [x EXCEPT
        !.current_line =
            IF ev.start > x.last_pos
            THEN @ + CountNewlines(md, x.last_pos, ev.start)
            ELSE @,
        !.last_pos = ev.start]

\* mutant of the bookkeeping: last_pos moved to the end of the event's range
TrackLineToEnd(md, x, ev) ==
    [x EXCEPT
        !.current_line =
            IF ev.start > x.last_pos
            THEN @ + CountNewlines(md, x.last_pos, ev.start)
            ELSE @,
        !.last_pos = IF ev.end > @ THEN ev.end ELSE @]

\* the line bookkeeping done for every event before it is matched
TrackLine(md, x, ev) ==
    [x EXCEPT
        !.current_line =
            IF ev.start > x.last_pos
            THEN @ + CountNewlines(md, x.last_pos, ev.start)
            ELSE @,
        !.last_pos = IF ev.start > @ THEN ev.start ELSE @]

\* Event::Start(Tag::Heading { level, .. })
OnStartHeading(x, ev) ==
    [x EXCEPT !.current_heading =
        Some([level |-> ev.level,
              start |-> ev.start,
              line_number |-> x.current_line,
              empty_link_ranges |-> <<>>,
              current_link |-> None])]

\* Event::Start(Tag::Link { .. })
OnStartLink(x, ev) ==
    IF x.current_heading.some
    THEN [x EXCEPT !.current_heading.val.current_link =
            Some([start |-> ev.start, text_content |-> <<>>])]
    ELSE x

\* Event::Text(text) | Event::Code(text)
OnText(x, ev) ==
    IF x.current_heading.some /\ x.current_heading.val.current_link.some
    THEN [x EXCEPT !.current_heading.val.current_link.val.text_content =
            @ \o ev.text]
    ELSE x

\* mutant of the push: the range of a closed link put before the earlier ones
OnEndLinkPrepends(x, ev) ==
    IF x.current_heading.some /\ x.current_heading.val.current_link.some
    THEN LET link == x.current_heading.val.current_link.val
         IN [x EXCEPT
                !.current_heading.val.current_link = None,
                !.current_heading.val.empty_link_ranges =
                    IF is_empty_or_invisible(link.text_content)
                    THEN <<[start |-> link.start, end |-> ev.end]>> \o @
                    ELSE @]
    ELSE x

\* Event::End(TagEnd::Link)
OnEndLink(x, ev) ==
    IF x.current_heading.some /\ x.current_heading.val.current_link.some
    THEN LET link == x.current_heading.val.current_link.val
         IN [x EXCEPT
                !.current_heading.val.current_link = None,
                !.current_heading.val.empty_link_ranges =
                    IF is_empty_or_invisible(link.text_content)
                    THEN Append(@, [start |-> link.start, end |-> ev.end])
                    ELSE @]
    ELSE x

\* mutant of the loop: the absolute offsets used as offsets into full_text
RECURSIVE SkipEmptyLinksAbsolute(_, _, _, _, _)
SkipEmptyLinksAbsolute(full_text, heading_start, ranges, text, last_end) ==
    IF ranges = <<>> THEN [text |-> text, last_end |-> last_end]
    ELSE LET relative_start == Head(ranges).start
             relative_end == Head(ranges).end
             slice == str_get(full_text, last_end, relative_start)
         IN IF relative_start >= relative_end \/ relative_end > Len(full_text)
            THEN SkipEmptyLinksAbsolute(full_text, heading_start, Tail(ranges),
                                        text, last_end)
            ELSE SkipEmptyLinksAbsolute(full_text, heading_start, Tail(ranges),
                                        IF last_end < relative_start /\ slice.some
                                        THEN text \o slice.val
                                        ELSE text,
                                        relative_end)

\* the loop over heading.empty_link_ranges: the text copied so far and last_end
RECURSIVE SkipEmptyLinks(_, _, _, _, _)
SkipEmptyLinks(full_text, heading_start, ranges, text, last_end) ==
    IF ranges = <<>> THEN [text |-> text, last_end |-> last_end]
    ELSE LET relative_start == saturating_sub(Head(ranges).start, heading_start)
             relative_end == saturating_sub(Head(ranges).end, heading_start)
             slice == str_get(full_text, last_end, relative_start)
         IN IF relative_start >= relative_end \/ relative_end > Len(full_text)
            THEN SkipEmptyLinks(full_text, heading_start, Tail(ranges),
                                text, last_end)
            ELSE SkipEmptyLinks(full_text, heading_start, Tail(ranges),
                                IF last_end < relative_start /\ slice.some
                                THEN text \o slice.val
                                ELSE text,
                                relative_end)

\* the text of the heading that ends with an event whose range ends at range_end
HeadingText(md, heading, range_end) ==
    LET got == str_get(md, heading.start, range_end)
        full_text == IF got.some THEN got.val ELSE <<>>
        r == SkipEmptyLinks(full_text, heading.start,
                            heading.empty_link_ranges, <<>>, 0)
        rest == str_get(full_text, r.last_end, Len(full_text))
    IN trim(IF r.last_end < Len(full_text) /\ rest.some
            THEN r.text \o rest.val
            ELSE r.text)

\* mutant of the end of a heading: a link still open is closed there and its
\* range cut like that of a closed link
OnEndHeadingCutsOpenLink(md, x, ev) ==
    IF x.current_heading.some
    THEN LET heading ==
                IF x.current_heading.val.current_link.some
                THEN [x.current_heading.val EXCEPT
                        !.empty_link_ranges =
                            Append(@, [start |-> x.current_heading.val.current_link.val.start,
                                       end |-> ev.end])]
                ELSE x.current_heading.val
             text == HeadingText(md, heading, ev.end)
         IN [x EXCEPT
                !.current_heading = None,
                !.headings =
                    IF text # <<>>
                    THEN Append(@, [level |-> level_num(heading.level),
                                    line_number |-> heading.line_number,
                                    text |-> text])
                    ELSE @]
    ELSE x

\* mutant of the push: the heading put at the front of the list
OnEndHeadingPrepends(md, x, ev) ==
    IF x.current_heading.some
    THEN LET heading == x.current_heading.val
             text == HeadingText(md, heading, ev.end)
         IN [x EXCEPT
                !.current_heading = None,
                !.headings =
                    IF text # <<>>
                    THEN <<[level |-> level_num(heading.level),
                            line_number |-> heading.line_number,
                            text |-> text]>> \o @
                    ELSE @]
    ELSE x

\* Event::End(TagEnd::Heading(_))
OnEndHeading(md, x, ev) ==
    IF x.current_heading.some
    THEN LET heading == x.current_heading.val
             text == HeadingText(md, heading, ev.end)
         IN [x EXCEPT
                !.current_heading = None,
                !.headings =
                    IF text # <<>>
                    THEN Append(@, [level |-> level_num(heading.level),
                                    line_number |-> heading.line_number,
                                    text |-> text])
                    ELSE @]
    ELSE x

\* one turn of the loop over the parser's events
ExtractStep(md, x, ev) ==
    LET y == TrackLine(md, x, ev)
    IN CASE ev.kind = "StartHeading" -> OnStartHeading(y, ev)
         [] ev.kind = "StartLink" -> OnStartLink(y, ev)
         [] ev.kind \in {"Text", "Code"} -> OnText(y, ev)
         [] ev.kind = "EndLink" -> OnEndLink(y, ev)
         [] ev.kind = "EndHeading" -> OnEndHeading(md, y, ev)
         [] OTHER -> y

RECURSIVE ExtractLoop(_, _, _)
ExtractLoop(md, x, evs) ==
    IF evs = <<>> THEN x
    ELSE ExtractLoop(md, ExtractStep(md, x, Head(evs)), Tail(evs))

\* extract_headings(markdown), the parser's events being evs
extract_headings(md, evs) == ExtractLoop(md, ExtractInit, evs).headings

(***************************************************************************)
(* render_toc and find_optimal_level                                       *)
(***************************************************************************)
Digit(d) == <<"0", "1", "2", "3", "4", "5", "6", "7", "8", "9">>[d + 1]

\* format!("{n}")
RECURSIVE Decimal(_)
Decimal(n) ==
    IF n < 10 THEN <<Digit(n)>> ELSE Decimal(n \div 10) \o <<Digit(n % 10)>>

\* mutant of the format: the number without its padding
PadLeftNone(digits, width) == digits

\* format!("{:>width$}", n): right-aligned, never truncated
PadLeft(digits, width) ==
    [i \in 1..saturating_sub(width, Len(digits)) |-> " "] \o digits

\* the bytes of the arrow U+2192 that separates line number and text
Arrow == <<"E2", "86", "92">>

\* mutant of the filter: only the headings of the level itself are kept
RECURSIVE FilterLevelExact(_, _)
FilterLevelExact(hs, max_level) ==
    IF hs = <<>> THEN <<>>
    ELSE IF Head(hs).level = max_level
         THEN <<Head(hs)>> \o FilterLevelExact(Tail(hs), max_level)
         ELSE FilterLevelExact(Tail(hs), max_level)

RECURSIVE FilterLevel(_, _)
FilterLevel(hs, max_level) ==
    IF hs = <<>> THEN <<>>
    ELSE IF Head(hs).level <= max_level
         THEN <<Head(hs)>> \o FilterLevel(Tail(hs), max_level)
         ELSE FilterLevel(Tail(hs), max_level)

\* mutant of the join: a line feed after every line, the last one too
RECURSIVE JoinLinesTrailing(_)
JoinLinesTrailing(lines) ==
    IF lines = <<>> THEN <<>>
    ELSE lines[1] \o <<"LF">> \o JoinLinesTrailing(Tail(lines))

RECURSIVE JoinLines(_)
JoinLines(lines) ==
    IF lines = <<>> THEN <<>>
    ELSE IF Len(lines) = 1 THEN lines[1]
    ELSE lines[1] \o <<"LF">> \o JoinLines(Tail(lines))

render_toc(hs, max_level) ==
    LET filtered == FilterLevel(hs, max_level)
    IN IF filtered = <<>> THEN <<>>
       ELSE LET max_line_num == filtered[Len(filtered)].line_number
                digits == Len(Decimal(max_line_num))
                width == IF digits > 3 THEN digits ELSE 3
            IN JoinLines([i \in DOMAIN filtered |->
                    PadLeft(Decimal(filtered[i].line_number), width)
                    \o Arrow \o filtered[i].text])

\* headings.iter().map(|h| h.level).max().unwrap_or(1)
MaxLevel(hs) ==
    IF hs = <<>> THEN 1
    ELSE CHOOSE m \in {hs[i].level : i \in DOMAIN hs} :
            \A i \in DOMAIN hs : hs[i].level <= m

\* the number of chars of a string, not of its bytes
CharCount(s) == Cardinality({i \in DOMAIN s : s[i] \notin ContinuationBytes})

\* mutants of the loop body: the size taken in chars instead of bytes; the
\* first fit kept instead of the last; the comparison with the budget inverted
LevelBodyCountsChars(hs, budget, lvl, b) ==
    LET rendered == render_toc(hs, lvl)
    IN IF rendered = <<>> THEN b
       ELSE IF CharCount(rendered) <= budget
            THEN Some([level |-> lvl, toc |-> rendered])
            ELSE b

LevelBodyKeepsFirst(hs, budget, lvl, b) ==
    LET rendered == render_toc(hs, lvl)
    IN IF rendered = <<>> \/ b.some THEN b
       ELSE IF Len(rendered) <= budget
            THEN Some([level |-> lvl, toc |-> rendered])
            ELSE b

LevelBodyInverted(hs, budget, lvl, b) ==
    LET rendered == render_toc(hs, lvl)
    IN IF rendered = <<>> THEN b
       ELSE IF Len(rendered) >= budget
            THEN Some([level |-> lvl, toc |-> rendered])
            ELSE b

\* mutant of the loop body: the budget cut down to a narrower integer
LevelBodyBudgetTruncated(hs, budget, lvl, b) ==
    LET rendered == render_toc(hs, lvl)
    IN IF rendered = <<>> THEN b
       ELSE IF Len(rendered) <= budget % 25
            THEN Some([level |-> lvl, toc |-> rendered])
            ELSE b

\* the body of the loop for level in 1..=max_level: the value of best after it
LevelBody(hs, budget, lvl, b) ==
    LET rendered == render_toc(hs, lvl)
    IN IF rendered = <<>> THEN b
       ELSE IF Len(rendered) <= budget
            THEN Some([level |-> lvl, toc |-> rendered])
            ELSE b

RECURSIVE LevelLoop(_, _, _, _)
LevelLoop(hs, budget, lvl, b) ==
    IF lvl > MaxLevel(hs) THEN b
    ELSE LevelLoop(hs, budget, lvl + 1, LevelBody(hs, budget, lvl, b))

find_optimal_level(hs, budget) ==
    IF hs = <<>> THEN None ELSE LevelLoop(hs, budget, 1, None)

\* mutant of the last lines: an empty ToC instead of None when no level fits
GenerateResultOrDefault(selection) ==
    IF selection.some THEN Some(selection.val.toc) ELSE Some(<<>>)

\* the last lines of generate_toc: the ? on the selection, then the empty check
GenerateResult(selection) ==
    IF ~selection.some THEN None
    ELSE IF selection.val.toc = <<>> THEN None
    ELSE Some(selection.val.toc)

\* mutant of the gate: the length of the text instead of the size hint
BelowThresholdByLen(md, hint, cfg) == Len(md) < cfg.full_content_threshold

\* the gate of generate_toc on the size hint; the text itself is not looked at
below_threshold(md, hint, cfg) == hint < cfg.full_content_threshold

\* generate_toc(markdown, total_bytes, config), the parser's events being evs
generate_toc(md, evs, hint, cfg) ==
    IF below_threshold(md, hint, cfg) THEN None
    ELSE LET hs == extract_headings(md, evs)
         IN IF hs = <<>> THEN None
            ELSE GenerateResult(find_optimal_level(hs, cfg.toc_budget))

(***************************************************************************)
(* Inputs                                                                  *)
(***************************************************************************)
SeqsUpTo(S, n) == UNION {[1..k -> S] : k \in 0..n}

Block(kind, level, items, eol) ==
    [kind |-> kind, level |-> level, items |-> items, eol |-> eol]

\* documents handed to generate_toc: ATX headings of several levels, paragraphs
TocBlocks ==
    {Block("atx", l, <<i>>, "LF") : l \in 1..MaxDocLevel, i \in {"word", "textLink"}}
    \cup {Block("para", 0, <<"word">>, "LF")}

DocsToc == SeqsUpTo(TocBlocks, MaxBlocks) \ {<<>>}

Budgets == {k * BudgetStep : k \in 0..MaxBudgetSteps}

Configs ==
    [toc_budget : Budgets, full_content_threshold : {0, MaxThreshold}]

\* the size hints tried for a text: its length, and a hint on the other side
\* of MaxThreshold
Hints(md) == {Len(md), IF Len(md) < MaxThreshold THEN MaxThreshold ELSE 0}

\* documents handed to extract_headings: paragraphs, then one heading with
\* any inline items, every line with its own line ending
LinkItems ==
    {"emptyLink", "zwspLink", "spaceLink", "textLink", "codeLink", "mathLink",
     "imageLink"}

InlineItems == {"word"} \cup LinkItems

PrefixBlocks == {Block("para", 0, <<"word">>, e) : e \in {"LF", "CRLF"}}

HeadingBlocks ==
    {Block("atx", 2, items, e) :
        items \in SeqsUpTo(InlineItems, MaxItems), e \in {"LF", "CRLF", "EOF"}}
    \cup
    {Block("setext", l, items, e) :
        l \in {1, 2},
        items \in SeqsUpTo(InlineItems \cup {"twoLines"}, MaxItems) \ {<<>>},
        e \in {"LF", "CRLF"}}
    \cup
    {Block("atx", l, <<"word">>, "LF") : l \in 1..6}

DocsExtract ==
    {prefix \o <<h>> : prefix \in SeqsUpTo(PrefixBlocks, MaxPrefix), h \in HeadingBlocks}

\* an unconstrained event stream over a fixed text: "a\n" and U+00E9
StreamText == <<"a", "LF", "C3", "A9">>

StreamEvents ==
    LET ranges == {r \in (0..Len(StreamText)) \X (0..Len(StreamText)) : r[1] <= r[2]}
    IN {Event(k, r[1], r[2], "H1", <<>>) :
            r \in ranges, k \in {"StartHeading", "EndHeading"}}
       \cup {Event(k, r[1], r[2], "", <<>>) :
                r \in ranges, k \in {"StartLink", "EndLink", "Other"}}
       \cup {Event("Text", r[1], r[2], "", t) :
                r \in ranges, t \in {<<"a">>, <<"U+200B">>}}
       \cup {Event("Code", r[1], r[2], "", <<"a">>) : r \in ranges}

\* the documents and configs of a caller that calls generate_toc again and
\* again: one heading, two headings of different levels, no heading, a
\* paragraph and one setext heading
DocsCalls ==
    {<<Block("atx", 1, <<"word">>, "LF")>>,
     <<Block("atx", 1, <<"textLink">>, "LF"), Block("atx", 2, <<"word">>, "LF")>>,
     <<Block("para", 0, <<"word">>, "LF")>>,
     <<Block("para", 0, <<"word">>, "LF"), Block("setext", 1, <<"word">>, "LF")>>}

ConfigsCalls ==
    [toc_budget : {0, BudgetStep, 2 * BudgetStep},
     full_content_threshold : {0, MaxThreshold}]

\* the events of a stream with few ranges: one that starts and one that ends
\* off a char boundary, one that lies before the others, two that overlap, an
\* empty one at the end of the text
RobustRanges == {<<0, 1>>, <<0, 4>>, <<2, 4>>, <<3, 4>>, <<2, 3>>, <<4, 4>>}

RobustEvents ==
    {e \in StreamEvents : <<e.start, e.end>> \in RobustRanges /\ e.kind # "Code"}

\* malformed input: the events of a document of two headings from which any
\* of the events End(Link) are missing
RECURSIVE Drops(_)
Drops(evs) ==
    IF evs = <<>> THEN {<<>>}
    ELSE LET rest == Drops(Tail(evs))
         IN {<<Head(evs)>> \o r : r \in rest}
            \cup (IF Head(evs).kind = "EndLink" THEN rest ELSE {})

DocsUnclosed ==
    {<<Block("atx", 1, items, "LF"), Block("atx", 2, <<i>>, "LF")>> :
        items \in SeqsUpTo({"word", "emptyLink", "textLink", "mathLink"}, MaxItems)
                    \ {<<>>},
        i \in {"word", "emptyLink"}}

\* heading lists handed to find_optimal_level, in any order of line numbers
Heading(level_, line_number, text) ==
    [level |-> level_, line_number |-> line_number, text |-> text]

\* a list whose rendering is shorter at level 2 than at level 1: the last
\* heading of level 1 has a ten-digit line number, the last of level 2 has not
PaddedList ==
    <<Heading(1, 1, <<"#">>), Heading(1, 1, <<"#">>),
      Heading(1, 1000000000, <<"#">>), Heading(2, 1, <<"#">>)>>

\* a list as a setext heading and an ATX heading give it: the text of the
\* first holds the line ending before its underline
SetextList ==
    <<Heading(1, 1, <<"a", "LF", "=">>), Heading(2, 3, <<"#", "#", " ", "a">>)>>

HeadingLists ==
    SeqsUpTo([level : 1..3, line_number : {1, 2, 1000},
              text : {<<"#">>, <<"#", " ", "a">>}],
             MaxHeadings)
    \cup {PaddedList, SetextList}

(***************************************************************************)
(* src/src/main.rs: strings, URLs and paths                                *)
(*                                                                         *)
(* A string of main.rs is a sequence of chars, each a one-character        *)
(* string.  A path is a sequence of components, each a string; the root    *)
(* is the empty path.                                                      *)
(***************************************************************************)
UpperChars ==
    <<"A", "B", "C", "D", "E", "F", "G", "H", "I", "J", "K", "L", "M",
      "N", "O", "P", "Q", "R", "S", "T", "U", "V", "W", "X", "Y", "Z">>

LowerChars ==
    <<"a", "b", "c", "d", "e", "f", "g", "h", "i", "j", "k", "l", "m",
      "n", "o", "p", "q", "r", "s", "t", "u", "v", "w", "x", "y", "z">>

\* str::to_lowercase, on ASCII
to_lowercase(s) ==
    [i \in DOMAIN s |->
        IF \E k \in DOMAIN UpperChars : UpperChars[k] = s[i]
        THEN LowerChars[CHOOSE k \in DOMAIN UpperChars : UpperChars[k] = s[i]]
        ELSE s[i]]

\* str::starts_with, str::ends_with, str::contains
starts_with(s, pat) == Len(s) >= Len(pat) /\ SubSeq(s, 1, Len(pat)) = pat

ends_with(s, pat) ==
    Len(s) >= Len(pat) /\ SubSeq(s, Len(s) - Len(pat) + 1, Len(s)) = pat

contains(s, pat) ==
    \E i \in 0..(Len(s) - Len(pat)) : SubSeq(s, i + 1, i + Len(pat)) = pat

\* mutant of str::trim_end_matches: one char taken off at most
TrimEndOnce(s, c) ==
    IF s # <<>> /\ s[Len(s)] = c THEN SubSeq(s, 1, Len(s) - 1) ELSE s

\* str::trim_end_matches(char), str::trim_start_matches(char)
RECURSIVE trim_end_matches(_, _)
trim_end_matches(s, c) ==
    IF s # <<>> /\ s[Len(s)] = c
    THEN trim_end_matches(SubSeq(s, 1, Len(s) - 1), c)
    ELSE s

RECURSIVE trim_start_matches(_, _)
trim_start_matches(s, c) ==
    IF s # <<>> /\ s[1] = c THEN trim_start_matches(Tail(s), c) ELSE s

\* the chars of s before the first char that is in stop, and the rest
Before(s, stop) ==
    LET hits == {i \in DOMAIN s : s[i] \in stop}
    IN IF hits = {} THEN s
       ELSE SubSeq(s, 1, (CHOOSE i \in hits : \A j \in hits : i <= j) - 1)

From(s, stop) == SubSeq(s, Len(Before(s, stop)) + 1, Len(s))

\* str::split(char): the parts between the separators, empty parts kept
RECURSIVE split(_, _)
split(s, c) ==
    IF From(s, {c}) = <<>> THEN <<s>>
    ELSE <<Before(s, {c})>> \o split(Tail(From(s, {c})), c)

\* [&str]::join(sep)
RECURSIVE join(_, _)
join(parts, sep) ==
    IF parts = <<>> THEN <<>>
    ELSE IF Len(parts) = 1 THEN parts[1]
    ELSE parts[1] \o sep \o join(Tail(parts), sep)

\* str::replace([chars], "_")
replace(s, chars, by) ==
    [i \in DOMAIN s |-> IF s[i] \in chars THEN by ELSE s[i]]

\* Result::Ok, Result::Err
Ok(v) == [ok |-> TRUE, val |-> v]
Err(e) == [ok |-> FALSE, err |-> e]

(***************************************************************************)
(* url::Url::parse, for the URLs of the model: the scheme "https://", a     *)
(* host, a path, a query.  The host of a special scheme is lowercased and  *)
(* must not be empty; the dot segments of the path are resolved, "%2e"     *)
(* counting as a dot; the chars ", < and > of the query are                *)
(* percent-encoded.                                                        *)
(***************************************************************************)
Https == <<"h", "t", "t", "p", "s", ":", "/", "/">>

\* a path segment that is a single-dot or a double-dot segment
SingleDot(seg) ==
    to_lowercase(seg) \in {<<".">>, <<"%", "2", "e">>}

DoubleDot(seg) ==
    to_lowercase(seg) \in
        {<<".", ".">>, <<".", "%", "2", "e">>, <<"%", "2", "e", ".">>,
         <<"%", "2", "e", "%", "2", "e">>}

\* the path state of the parser: the segments kept so far, k the segments of
\* the input still to come
RECURSIVE PathSegments(_, _)
PathSegments(kept, segs) ==
    IF segs = <<>> THEN kept
    ELSE LET seg == Head(segs)
             last == Len(segs) = 1
         IN IF DoubleDot(seg)
            THEN PathSegments((IF kept = <<>> THEN <<>>
                               ELSE SubSeq(kept, 1, Len(kept) - 1))
                              \o (IF last THEN << <<>> >> ELSE <<>>),
                              Tail(segs))
            ELSE IF SingleDot(seg)
            THEN PathSegments(kept \o (IF last THEN << <<>> >> ELSE <<>>),
                              Tail(segs))
            ELSE PathSegments(Append(kept, seg), Tail(segs))

\* the path of the parsed URL: "/" and the segments joined by "/"
ParsedPath(raw) ==
    IF raw = <<>> THEN <<"/">>
    ELSE <<"/">> \o join(PathSegments(<<>>, split(Tail(raw), "/")), <<"/">>)

RECURSIVE PercentEncodeQuery(_)
PercentEncodeQuery(q) ==
    IF q = <<>> THEN <<>>
    ELSE (CASE Head(q) = "\"" -> <<"%", "2", "2">>
            [] Head(q) = "<" -> <<"%", "3", "C">>
            [] Head(q) = ">" -> <<"%", "3", "E">>
            [] OTHER -> <<Head(q)>>)
         \o PercentEncodeQuery(Tail(q))

\* Url::parse(url): Err, or Ok of the host, the path and the query
ParseUrl(url) ==
    IF ~starts_with(url, Https) THEN Err("RelativeUrlWithoutBase")
    ELSE LET rest == SubSeq(url, Len(Https) + 1, Len(url))
             host == to_lowercase(Before(rest, {"/", "?", "#"}))
             after == From(rest, {"/", "?", "#"})
             raw_path == Before(after, {"?", "#"})
             tail == From(after, {"?", "#"})
         IN IF host = <<>> THEN Err("EmptyHost")
            ELSE Ok([host |-> host,
                     path |-> ParsedPath(raw_path),
                     query |-> IF tail # <<>> /\ tail[1] = "?"
                               THEN Some(PercentEncodeQuery(Before(Tail(tail), {"#"})))
                               ELSE None])

(***************************************************************************)
(* get_url_variations                                                      *)
(***************************************************************************)
GitHubDomain == <<"g", "i", "t", "h", "u", "b", ".", "c", "o", "m">>

RawBase ==
    Https \o <<"r", "a", "w", ".", "g", "i", "t", "h", "u", "b", "u", "s", "e",
               "r", "c", "o", "n", "t", "e", "n", "t", ".", "c", "o", "m", "/">>

DotMd == <<".", "m", "d">>
DotTxt == <<".", "t", "x", "t">>
SlashReadme == <<"/", "R", "E", "A", "D", "M", "E", ".", "m", "d">>
SlashIndexMd == <<"/", "i", "n", "d", "e", "x", ".", "m", "d">>
SlashLlms == <<"/", "l", "l", "m", "s", ".", "t", "x", "t">>
SlashLlmsFull == <<"/", "l", "l", "m", "s", "-", "f", "u", "l", "l", ".", "t", "x", "t">>

\* the variations pushed for a GitHub URL before the standard ones
GitHubVariations(parsed) ==
    LET parts == split(trim_start_matches(parsed.path, "/"), "/")
        owner == parts[1]
        repo == parts[2]
        blob ==
            IF Len(parts) >= 4 /\ parts[3] = <<"b", "l", "o", "b">>
            THEN <<RawBase \o owner \o <<"/">> \o repo \o <<"/">>
                   \o join(SubSeq(parts, 4, Len(parts)), <<"/">>)>>
            ELSE <<>>
        tree ==
            IF Len(parts) >= 4 /\ parts[3] = <<"t", "r", "e", "e">>
            THEN LET branch == parts[4]
                     subpath == IF Len(parts) > 4
                                THEN join(SubSeq(parts, 5, Len(parts)), <<"/">>)
                                ELSE <<>>
                     raw_base ==
                        RawBase \o owner \o <<"/">> \o repo \o <<"/">> \o branch
                        \o (IF subpath = <<>> THEN <<>> ELSE <<"/">> \o subpath)
                 IN <<raw_base \o SlashReadme>>
            ELSE <<>>
    IN blob \o tree

get_url_variations(url) ==
    LET url_lower == to_lowercase(url)
        base == trim_end_matches(url, "/")
        parsed == ParseUrl(url)
        is_github == parsed.ok /\ parsed.val.host = GitHubDomain
    IN IF ends_with(url_lower, DotMd) \/ ends_with(url_lower, DotTxt)
       THEN <<url>>
       ELSE IF contains(url, <<"?">>)
       THEN <<url>>
       ELSE <<url>>
            \o (IF is_github THEN GitHubVariations(parsed.val) ELSE <<>>)
            \o <<base \o DotMd>>
            \o (IF is_github THEN <<base \o SlashReadme>> ELSE <<>>)
            \o <<base \o SlashIndexMd, base \o SlashLlms, base \o SlashLlmsFull>>

(***************************************************************************)
(* url_to_path and the methods of Path it uses                             *)
(***************************************************************************)
Dot == <<".">>
DotDot == <<".", ".">>
Index == <<"i", "n", "d", "e", "x">>

\* the place of the last "." of a file name, 0 when it has none
LastDot(name) ==
    LET dots == {i \in DOMAIN name : name[i] = "."}
    IN IF dots = {} THEN 0 ELSE CHOOSE i \in dots : \A j \in dots : j <= i

\* Path::extension of a one-component path: None for "..", for a name without
\* "." and for a name whose only "." is its first char
extension(name) ==
    IF name = DotDot \/ LastDot(name) <= 1 THEN None
    ELSE Some(SubSeq(name, LastDot(name) + 1, Len(name)))

\* Path::file_stem of a file name
file_stem(name) ==
    IF LastDot(name) <= 1 THEN name ELSE SubSeq(name, 1, LastDot(name) - 1)

\* Path::file_name: the last component unless it is ".."
file_name(path) ==
    IF path = <<>> \/ path[Len(path)] = DotDot THEN None
    ELSE Some(path[Len(path)])

\* PathBuf::set_extension, Path::with_extension
set_extension(path, ext) ==
    IF ~file_name(path).some THEN path
    ELSE [path EXCEPT ![Len(path)] =
            file_stem(@) \o (IF ext = <<>> THEN <<>> ELSE Dot \o ext)]

with_extension(path, ext) == set_extension(path, ext)

\* Path::parent
parent(path) == IF path = <<>> THEN None ELSE Some(SubSeq(path, 1, Len(path) - 1))

\* Path::components: the components but those that are "."
components(path) == SelectSeq(path, LAMBDA c : c # Dot)

\* Path::starts_with: base is a prefix of the path, component by component
path_starts_with(path, base) ==
    /\ Len(components(path)) >= Len(components(base))
    /\ SubSeq(components(path), 1, Len(components(base))) = components(base)

\* the chars of the query that are replaced
UnsafeChars == {"/", "\\", ":", "*", "?", "\"", "<", ">", "|"}

url_to_path(base_dir, url_) ==
    LET parsed == ParseUrl(url_)
    IN IF ~parsed.ok THEN Err("parse")
       ELSE
        LET domain == parsed.val.host
            url_path == trim_start_matches(parsed.val.path, "/")
            comps == IF url_path = <<>> THEN <<>> ELSE split(url_path, "/")
            pushed == Append(base_dir, domain)
                      \o SelectSeq(comps, LAMBDA c : c # <<>>)
            last_segment == split(url_path, "/")[Len(split(url_path, "/"))]
            needs_index == IF url_path = <<>> THEN TRUE
                           ELSE ~extension(last_segment).some
            named == IF needs_index THEN Append(pushed, Index) ELSE pushed
            path ==
                IF parsed.val.query.some
                THEN LET safe_query == replace(parsed.val.query.val, UnsafeChars, "_")
                         got == IF file_name(named).some
                                THEN extension(file_name(named).val)
                                ELSE None
                         current_ext == IF got.some THEN got.val ELSE <<>>
                         new_ext == IF current_ext = <<>>
                                    THEN <<"?">> \o safe_query
                                    ELSE current_ext \o <<"?">> \o safe_query
                     IN set_extension(named, new_ext)
                ELSE named
        IN IF \E i \in DOMAIN comps : comps[i] = DotDot \/ comps[i] = Dot
           THEN Err("Invalid path component in URL")
           ELSE IF ~path_starts_with(path, base_dir)
           THEN Err("Path traversal detected")
           ELSE Ok(path)

(***************************************************************************)
(* The file system under tokio::fs: directories, names of files, and the   *)
(* bytes of every file (inode), which live on while a name or an open file *)
(* refers to them.  A path of the model has no "." or ".." component.      *)
(***************************************************************************)
\* the prefixes of a path, itself included
Ancestors(path) == {SubSeq(path, 1, k) : k \in 0..Len(path)}

\* fs::create_dir_all: every missing ancestor is made a directory; an
\* ancestor that is a file makes it fail
create_dir_all(fs, path) ==
    IF \E a \in Ancestors(path) : a \in DOMAIN fs.names
    THEN Err("create_dir_all")
    ELSE Ok([fs EXCEPT !.dirs = @ \cup Ancestors(path)])

\* File::create, the first half of fs::write: open with O_CREAT and O_TRUNC.
\* Ok of the file system and the inode opened
open_truncate(fs, path) ==
    IF path \in fs.dirs \/ SubSeq(path, 1, Len(path) - 1) \notin fs.dirs
    THEN Err("open")
    ELSE IF path \in DOMAIN fs.names
    THEN Ok([fs |-> [fs EXCEPT !.data[fs.names[path]] = <<>>],
             fd |-> fs.names[path]])
    ELSE Ok([fs |-> [fs EXCEPT !.data = Append(@, <<>>),
                               !.names = (path :> (Len(fs.data) + 1)) @@ @],
             fd |-> Len(fs.data) + 1])

\* write_all, the second half of fs::write: the bytes are put at the start
\* of the open file
write_all(fs, fd, bytes) ==
    [fs EXCEPT !.data[fd] = bytes \o SubSeq(@, Len(bytes) + 1, Len(@))]

\* fs::rename: the name to refers to the file of from, which loses its name
rename(fs, from, to) ==
    IF \/ from \notin DOMAIN fs.names
       \/ to \in fs.dirs
       \/ SubSeq(to, 1, Len(to) - 1) \notin fs.dirs
    THEN Err("rename")
    ELSE Ok([fs EXCEPT !.names =
                [p \in (DOMAIN fs.names \ {from}) \cup {to} |->
                    IF p = to THEN fs.names[from] ELSE fs.names[p]]])

\* Path::exists
exists(fs, path) == path \in fs.dirs \/ path \in DOMAIN fs.names

GitignoreName == <<".", "g", "i", "t", "i", "g", "n", "o", "r", "e">>
GitignoreBytes == <<"*", "LF">>
Tmp == <<"t", "m", "p">>

\* ensure_gitignore
ensure_gitignore(fs, base_dir) ==
    LET gitignore_path == Append(base_dir, GitignoreName)
        made == create_dir_all(fs, base_dir)
        opened == open_truncate(made.val, gitignore_path)
    IN IF exists(fs, gitignore_path) THEN Ok(fs)
       ELSE IF ~made.ok THEN made
       ELSE IF ~opened.ok THEN opened
       ELSE Ok(write_all(opened.val.fs, opened.val.fd, GitignoreBytes))

(***************************************************************************)
(* fetch_url and the conversion of HTML                                    *)
(***************************************************************************)
\* what a fetch task can come to: a response with a content-type that holds
\* "text/html", "text/markdown", both or neither, an error status, a network
\* error, or the task itself failing (JoinError)
AttemptKinds ==
    {"html", "html_markdown", "markdown", "text", "http_error", "network_error",
     "join_error"}

is_html(kind) == kind \in {"html", "html_markdown"}
is_markdown(kind) == kind \in {"markdown", "html_markdown"}
Success(kind) == kind \in {"html", "html_markdown", "markdown", "text"}

HtmlTags == {"<p>", "</p>", "<nav>"}

\* the body the server sends to caller c: its text, in a paragraph when the
\* response is HTML
Body(c) == IF c = 1 THEN <<"a", "a">> ELSE [i \in 1..(c - 1) |-> "b"]

Response(c, kind) ==
    IF is_html(kind) THEN <<"<p>">> \o Body(c) \o <<"</p>">> ELSE Body(c)

\* clean_markdown(html2md::parse_html(clean_html(content))): the text
\* without the tags
ConvertHtml(content) == SelectSeq(content, LAMBDA t : t \notin HtmlTags)

\* the content_type of a FileInfo
ContentType(result) ==
    LET url_lower == to_lowercase(result.url)
    IN IF contains(url_lower, SlashLlmsFull) THEN "llms-full"
       ELSE IF contains(url_lower, SlashLlms) THEN "llms"
       ELSE IF result.is_markdown THEN "markdown"
       ELSE IF result.is_html THEN "html-converted"
       ELSE "text"

\* content_to_save
ContentToSave(result) ==
    IF result.is_html /\ ~result.is_markdown
    THEN ConvertHtml(result.content)
    ELSE result.content

(***************************************************************************)
(* Inputs of main.rs                                                       *)
(***************************************************************************)
\* a URL in parts: a scheme or none, a host, path segments, a suffix after
\* the last segment, trailing slashes, a query
UrlText(u) ==
    (IF u.scheme THEN Https ELSE <<>>) \o u.host
    \o join([i \in DOMAIN u.segs |-> <<"/">> \o u.segs[i]], <<>>)
    \o u.suffix
    \o [i \in 1..u.slashes |-> "/"]
    \o u.query

\* the URLs handed to get_url_variations
VariationHosts ==
    {<<"e", ".", "c", "o">>, GitHubDomain,
     <<"G", "i", "t", "H", "u", "b", ".", "c", "o", "m">>}

VariationSegments == {<<"o">>, <<"b", "l", "o", "b">>, <<"t", "r", "e", "e">>}

VariationSuffixes ==
    {<<>>, DotMd, <<".", "T", "x", "T">>, <<".", "m", "d", "x">>}

UrlsVariations ==
    {u \in [scheme : BOOLEAN, host : VariationHosts,
            segs : SeqsUpTo(VariationSegments, MaxSegments),
            suffix : VariationSuffixes, slashes : 0..MaxSlashes,
            query : {<<>>, <<"?", "q">>}] :
        ~u.scheme => u.host = GitHubDomain}

\* the cache directory, made absolute by FetchServer::new
CacheDir == << <<"w">>, <<"c">> >>

\* the URLs handed to url_to_path: hosts and path segments that are names
\* or dots, file names with an extension, queries with the chars that are
\* not safe in a file name
PathHosts == {<<"e", ".", "c", "o">>, Dot, DotDot}

PathSegmentsIn ==
    {<<"a">>, <<"a", ".", "m", "d">>, Dot, DotDot, <<"%", "2", "E", ".">>}

PathQueries ==
    {<<>>, <<"?", "q">>, <<"?", ".", ".", "/", "q">>,
     <<"?", "/", "\\", ":", "*", "?", "\"", "<", ">", "|">>}

UrlsPath ==
    [scheme : BOOLEAN, host : PathHosts,
     segs : SeqsUpTo(PathSegmentsIn, MaxPathSegments),
     suffix : {<<>>}, slashes : 0..1, query : PathQueries]

\* the URLs fetched: a page, a page whose name has an extension, a markdown
\* file
ECo == <<"e", ".", "c", "o">>

UrlsFetch ==
    {Https \o ECo \o <<"/", "a">>,
     Https \o ECo \o <<"/", "v", ".", "2">>,
     Https \o ECo \o <<"/", "a", ".", "m", "d">>}

\* the callers of fetch
Callers == 1..MaxCallers

\* the file system before the first call: the working directory, and
\* nothing of the cache
EmptyFs ==
    [dirs |-> Ancestors(SubSeq(CacheDir, 1, Len(CacheDir) - 1)),
     names |-> <<>>,
     data |-> <<>>]

(***************************************************************************)
(* State                                                                   *)
(***************************************************************************)
VARIABLES
    entry,            \* the function that was called
    source,           \* "parser": events of a parsed document; "stream": any
                      \* events; "robust": any events over RobustRanges
    pc,               \* where the call stands
    doc,              \* the structure of the parsed document (<<>> for a stream)
    markdown,         \* the text
    events,           \* the parser's events still to come
    consumed,         \* events of an unconstrained stream taken so far
    total_bytes,      \* generate_toc's size hint
    config,           \* generate_toc's TocConfig
    headings,         \* extract_headings: headings
    current_heading,  \* extract_headings: current_heading
    current_line,     \* extract_headings: current_line
    last_pos,         \* extract_headings: last_pos
    in_order,         \* history: the open heading's range started at or after last_pos
    level,            \* find_optimal_level: the loop variable
    best,             \* find_optimal_level: best
    found,            \* what find_optimal_level returned
    result,           \* what generate_toc returned
    shape,            \* main.rs: the parts of the URL handed to the function
    url,              \* main.rs: the URL handed to the function
    out,              \* main.rs: what the function returned
    call,             \* fetch: the locals of every caller's call
    fsys,             \* fetch: the file system
    net               \* fetch: what the k-th fetch task of a call can come to

vars == <<entry, source, pc, doc, markdown, events, consumed, total_bytes, config,
          headings, current_heading, current_line, last_pos, in_order, level,
          best, found, result, shape, url, out, call, fsys, net>>

fetchVars == <<call, fsys, net>>
mainVars == <<shape, url, out, fetchVars>>

inputVars == <<entry, source, doc, markdown, total_bytes, config>>
extractVars == <<headings, current_heading, current_line, last_pos, in_order>>
selectVars == <<level, best, found>>

\* the state of the pass as a record, and back
X == [headings |-> headings, current_heading |-> current_heading,
      current_line |-> current_line, last_pos |-> last_pos]

SetX(x) ==
    /\ headings' = x.headings
    /\ current_heading' = x.current_heading
    /\ current_line' = x.current_line
    /\ last_pos' = x.last_pos

Locals ==
    /\ headings = <<>>
    /\ current_heading = None
    /\ current_line = 1
    /\ last_pos = 0
    /\ in_order = TRUE
    /\ level = 1
    /\ best = None
    /\ found = None
    /\ result = None

\* a caller that is not in a call of fetch: url is the URL it will ask
\* for, empty when it asks for none
NoCall(url_) ==
    [pc |-> "request", url |-> url_, variations |-> <<>>, awaited |-> 0,
     results |-> <<>>, errors |-> <<>>, has_non_html |-> FALSE, next |-> 0,
     content_to_save |-> <<>>, file_path |-> <<>>, fd |-> 0, converted |-> {},
     file_infos |-> <<>>, ret |-> None]

\* fetch is not called
FetchIdle ==
    /\ call = [c \in Callers |-> NoCall(<<>>)]
    /\ fsys = EmptyFs
    /\ net = <<>>

\* no function of main.rs is called
MainIdle ==
    /\ shape = <<>>
    /\ url = <<>>
    /\ out = None
    /\ FetchIdle

\* no function of toc.rs is called
TocIdle ==
    /\ source = "parser"
    /\ doc = <<>>
    /\ markdown = <<>>
    /\ events = <<>>
    /\ consumed = 0
    /\ total_bytes = 0
    /\ config = [toc_budget |-> 0, full_content_threshold |-> 0]
    /\ Locals

\* generate_toc is called on a parsed document
Init ==
    /\ entry = "generate_toc"
    /\ pc = "generate_toc"
    /\ source = "parser"
    /\ doc \in DocsToc
    /\ markdown = Unparse(doc)
    /\ events = ParseEvents(doc)
    /\ consumed = 0
    /\ total_bytes \in Hints(markdown)
    /\ config \in Configs
    /\ Locals
    /\ MainIdle

\* extract_headings is called on a parsed document
InitExtract ==
    /\ entry = "extract_headings"
    /\ pc = "extract"
    /\ source = "parser"
    /\ doc \in DocsExtract
    /\ markdown = Unparse(doc)
    /\ events = ParseEvents(doc)
    /\ consumed = 0
    /\ total_bytes = 0
    /\ config = [toc_budget |-> 0, full_content_threshold |-> 0]
    /\ Locals
    /\ MainIdle

\* extract_headings runs over an unconstrained event stream
InitEvents ==
    /\ entry = "extract_headings"
    /\ pc = "extract"
    /\ source = "stream"
    /\ doc = <<>>
    /\ markdown = StreamText
    /\ events = <<>>
    /\ consumed = 0
    /\ total_bytes = 0
    /\ config = [toc_budget |-> 0, full_content_threshold |-> 0]
    /\ Locals
    /\ MainIdle

\* extract_headings runs over events some End(Link) of which are missing
InitUnclosed ==
    /\ entry = "extract_headings"
    /\ pc = "extract"
    /\ source = "parser"
    /\ doc \in DocsUnclosed
    /\ markdown = Unparse(doc)
    /\ events \in Drops(ParseEvents(doc))
    /\ consumed = 0
    /\ total_bytes = 0
    /\ config = [toc_budget |-> 0, full_content_threshold |-> 0]
    /\ Locals
    /\ MainIdle

\* find_optimal_level is called on a heading list
InitLevel ==
    /\ entry = "find_optimal_level"
    /\ pc = "select"
    /\ source = "parser"
    /\ doc = <<>>
    /\ markdown = <<>>
    /\ events = <<>>
    /\ consumed = 0
    /\ total_bytes = 0
    /\ config \in [toc_budget : Budgets, full_content_threshold : {0}]
    /\ headings \in HeadingLists
    /\ current_heading = None
    /\ current_line = 1
    /\ last_pos = 0
    /\ in_order = TRUE
    /\ level = 1
    /\ best = None
    /\ found = None
    /\ result = None
    /\ MainIdle

\* generate_toc runs over an unconstrained event stream
InitRobust ==
    /\ entry = "generate_toc"
    /\ pc = "generate_toc"
    /\ source = "robust"
    /\ doc = <<>>
    /\ markdown = StreamText
    /\ events = <<>>
    /\ consumed = 0
    /\ total_bytes = Len(markdown)
    /\ config \in [toc_budget : {0, BudgetStep},
                   full_content_threshold : {0, MaxThreshold}]
    /\ Locals
    /\ MainIdle

\* the first of several calls of generate_toc
InitCalls ==
    /\ entry = "generate_toc"
    /\ pc = "generate_toc"
    /\ source = "parser"
    /\ doc \in DocsCalls
    /\ markdown = Unparse(doc)
    /\ events = ParseEvents(doc)
    /\ consumed = 0
    /\ total_bytes \in Hints(markdown)
    /\ config \in ConfigsCalls
    /\ Locals
    /\ MainIdle

(***************************************************************************)
(* generate_toc: the threshold gate                                        *)
(***************************************************************************)
BelowThreshold ==
    /\ pc = "generate_toc"
    /\ below_threshold(markdown, total_bytes, config)
    /\ result' = None
    /\ pc' = "done"
    /\ UNCHANGED <<mainVars, inputVars, events, consumed, extractVars, selectVars>>

CallExtract ==
    /\ pc = "generate_toc"
    /\ ~below_threshold(markdown, total_bytes, config)
    /\ SetX(ExtractInit)
    /\ UNCHANGED in_order
    /\ pc' = "extract"
    /\ UNCHANGED <<mainVars, inputVars, events, consumed, selectVars, result>>

(***************************************************************************)
(* extract_headings: one action per arm of the match on the event          *)
(***************************************************************************)
\* the events the iterator may yield next
Pending ==
    IF source = "parser"
    THEN IF events = <<>> THEN {} ELSE {Head(events)}
    ELSE IF consumed < MaxEvents
         THEN (IF source = "stream" THEN StreamEvents ELSE RobustEvents)
         ELSE {}

\* the iterator may be exhausted
Exhausted == IF source = "parser" THEN events = <<>> ELSE TRUE

Take ==
    /\ events' = IF source = "parser" THEN Tail(events) ELSE events
    /\ consumed' = IF source = "parser" THEN consumed ELSE consumed + 1

\* what every arm leaves alone
ExtractFrame == UNCHANGED <<pc, mainVars, inputVars, selectVars, result>>

StartHeading ==
    /\ pc = "extract"
    /\ \E ev \in Pending :
        /\ ev.kind = "StartHeading"
        /\ SliceOk(markdown, X, ev)
        /\ SetX(OnStartHeading(TrackLine(markdown, X, ev), ev))
        /\ in_order' = (ev.start >= last_pos)
    /\ Take
    /\ ExtractFrame

StartLink ==
    /\ pc = "extract"
    /\ \E ev \in Pending :
        /\ ev.kind = "StartLink"
        /\ SliceOk(markdown, X, ev)
        /\ SetX(OnStartLink(TrackLine(markdown, X, ev), ev))
    /\ UNCHANGED in_order
    /\ Take
    /\ ExtractFrame

TextOrCode ==
    /\ pc = "extract"
    /\ \E ev \in Pending :
        /\ ev.kind \in {"Text", "Code"}
        /\ SliceOk(markdown, X, ev)
        /\ SetX(OnText(TrackLine(markdown, X, ev), ev))
    /\ UNCHANGED in_order
    /\ Take
    /\ ExtractFrame

EndLink ==
    /\ pc = "extract"
    /\ \E ev \in Pending :
        /\ ev.kind = "EndLink"
        /\ SliceOk(markdown, X, ev)
        /\ SetX(OnEndLink(TrackLine(markdown, X, ev), ev))
    /\ UNCHANGED in_order
    /\ Take
    /\ ExtractFrame

EndHeading ==
    /\ pc = "extract"
    /\ \E ev \in Pending :
        /\ ev.kind = "EndHeading"
        /\ SliceOk(markdown, X, ev)
        /\ SetX(OnEndHeading(markdown, TrackLine(markdown, X, ev), ev))
    /\ UNCHANGED in_order
    /\ Take
    /\ ExtractFrame

\* the arm _ => {}
OtherEvent ==
    /\ pc = "extract"
    /\ \E ev \in Pending :
        /\ ev.kind = "Other"
        /\ SliceOk(markdown, X, ev)
        /\ SetX(TrackLine(markdown, X, ev))
    /\ UNCHANGED in_order
    /\ Take
    /\ ExtractFrame

\* markdown[last_pos..range.start] panics on a range that is no slice of the text
SlicePanic ==
    /\ pc = "extract"
    /\ \E ev \in Pending : ~SliceOk(markdown, X, ev)
    /\ pc' = "panic"
    /\ UNCHANGED <<mainVars, inputVars, events, consumed, extractVars, selectVars, result>>

\* extract_headings returns to its caller
ExtractReturn ==
    /\ pc = "extract"
    /\ entry = "extract_headings"
    /\ Exhausted
    /\ pc' = "done"
    /\ UNCHANGED <<mainVars, inputVars, events, consumed, extractVars, selectVars, result>>

(***************************************************************************)
(* generate_toc after extract_headings, and find_optimal_level             *)
(***************************************************************************)
NoHeadings ==
    /\ pc = "extract"
    /\ entry = "generate_toc"
    /\ Exhausted
    /\ headings = <<>>
    /\ result' = None
    /\ pc' = "done"
    /\ UNCHANGED <<mainVars, inputVars, events, consumed, extractVars, selectVars>>

\* mutant of the call: best is not set to None when the scan starts
CallFindOptimalLevelKeepsBest ==
    /\ pc = "extract"
    /\ entry = "generate_toc"
    /\ Exhausted
    /\ headings # <<>>
    /\ level' = 1
    /\ best' = best
    /\ pc' = "select"
    /\ UNCHANGED <<mainVars, inputVars, events, consumed, extractVars, found, result>>

CallFindOptimalLevel ==
    /\ pc = "extract"
    /\ entry = "generate_toc"
    /\ Exhausted
    /\ headings # <<>>
    /\ level' = 1
    /\ best' = None
    /\ pc' = "select"
    /\ UNCHANGED <<mainVars, inputVars, events, consumed, extractVars, found, result>>

\* find_optimal_level: if headings.is_empty() { return None; }
EmptyList ==
    /\ pc = "select"
    /\ headings = <<>>
    /\ found' = None
    /\ pc' = "selected"
    /\ UNCHANGED <<mainVars, inputVars, events, consumed, extractVars, level, best, result>>

\* one turn of for level in 1..=max_level
LevelStep ==
    /\ pc = "select"
    /\ headings # <<>>
    /\ level <= MaxLevel(headings)
    /\ best' = LevelBody(headings, config.toc_budget, level, best)
    /\ level' = level + 1
    /\ UNCHANGED <<pc, mainVars, inputVars, events, consumed, extractVars, found, result>>

\* the loop is over: find_optimal_level returns best
LevelReturn ==
    /\ pc = "select"
    /\ headings # <<>>
    /\ level > MaxLevel(headings)
    /\ found' = best
    /\ pc' = "selected"
    /\ UNCHANGED <<mainVars, inputVars, events, consumed, extractVars, level, best, result>>

\* generate_toc returns
GenerateReturn ==
    /\ pc = "selected"
    /\ entry = "generate_toc"
    /\ result' = GenerateResult(found)
    /\ pc' = "done"
    /\ UNCHANGED <<mainVars, inputVars, events, consumed, extractVars, selectVars>>

(***************************************************************************)
(* Specifications                                                          *)
(***************************************************************************)
Extract ==
    \/ StartHeading
    \/ StartLink
    \/ TextOrCode
    \/ EndLink
    \/ EndHeading
    \/ OtherEvent

\* generate_toc on parsed documents
Next ==
    \/ BelowThreshold
    \/ CallExtract
    \/ Extract
    \/ NoHeadings
    \/ CallFindOptimalLevel
    \/ LevelStep
    \/ LevelReturn
    \/ GenerateReturn

Spec == Init /\ [][Next]_vars

\* extract_headings on parsed documents
NextExtract == Extract \/ ExtractReturn

SpecExtract == InitExtract /\ [][NextExtract]_vars

\* extract_headings on unconstrained event streams
NextEvents == Extract \/ SlicePanic \/ ExtractReturn

SpecEvents == InitEvents /\ [][NextEvents]_vars

\* extract_headings on events with links that are never closed
SpecUnclosed == InitUnclosed /\ [][NextExtract]_vars

\* find_optimal_level on heading lists
NextLevel == EmptyList \/ LevelStep \/ LevelReturn

SpecLevel == InitLevel /\ [][NextLevel]_vars

\* generate_toc is called again after it returned, with any arguments; what
\* the earlier call left in its locals is there until the call overwrites it
CallAgain ==
    /\ pc = "done"
    /\ entry = "generate_toc"
    /\ \E d \in DocsCalls, c \in ConfigsCalls :
        \E h \in Hints(Unparse(d)) :
            /\ doc' = d
            /\ markdown' = Unparse(d)
            /\ events' = ParseEvents(d)
            /\ total_bytes' = h
            /\ config' = c
    /\ pc' = "generate_toc"
    /\ UNCHANGED <<mainVars, entry, source, consumed, extractVars, selectVars, result>>

\* generate_toc called any number of times
NextCalls == Next \/ CallAgain

SpecCalls == InitCalls /\ [][NextCalls]_vars

\* generate_toc on unconstrained event streams; every step of the call is
\* taken in the end: the call runs on one thread and nothing makes it wait
NextRobust ==
    \/ BelowThreshold
    \/ CallExtract
    \/ Extract
    \/ SlicePanic
    \/ NoHeadings
    \/ CallFindOptimalLevel
    \/ LevelStep
    \/ LevelReturn
    \/ GenerateReturn

SpecRobust == InitRobust /\ [][NextRobust]_vars /\ WF_vars(NextRobust)

(***************************************************************************)
(* main.rs: the pure functions, each called on one input                   *)
(***************************************************************************)
tocVars == <<source, doc, markdown, events, consumed, total_bytes, config,
             extractVars, selectVars, result>>

InitVariations ==
    /\ entry = "get_url_variations"
    /\ pc = "call"
    /\ shape \in UrlsVariations
    /\ url = UrlText(shape)
    /\ out = None
    /\ FetchIdle
    /\ TocIdle

CallGetUrlVariations ==
    /\ pc = "call"
    /\ entry = "get_url_variations"
    /\ out' = Some(get_url_variations(url))
    /\ pc' = "done"
    /\ UNCHANGED <<entry, shape, url, fetchVars, tocVars>>

SpecVariations == InitVariations /\ [][CallGetUrlVariations]_vars

InitPath ==
    /\ entry = "url_to_path"
    /\ pc = "call"
    /\ shape \in UrlsPath
    /\ url = UrlText(shape)
    /\ out = None
    /\ FetchIdle
    /\ TocIdle

CallUrlToPath ==
    /\ pc = "call"
    /\ entry = "url_to_path"
    /\ out' = url_to_path(CacheDir, url)
    /\ pc' = "done"
    /\ UNCHANGED <<entry, shape, url, fetchVars, tocVars>>

SpecPath == InitPath /\ [][CallUrlToPath]_vars

(***************************************************************************)
(* FetchServer::fetch, one action per step of a call; the calls of several *)
(* callers run concurrently, and so do the file operations of tokio::fs    *)
(***************************************************************************)
\* what fetch leaves alone
FetchFrame == UNCHANGED <<entry, pc, shape, url, out, net, tocVars>>

Returns(c, value) ==
    call' = [call EXCEPT ![c].pc = "returned", ![c].ret = Some(value)]

\* the k-th task of a call can come to any kind in net[k], the last entry
\* of net standing for all later tasks
Allowed(k) == IF k <= Len(net) THEN net[k] ELSE net[Len(net)]

\* the call starts: the variations are computed and one task each is spawned
Fetch(c) ==
    /\ call[c].pc = "request"
    /\ call[c].url # <<>>
    /\ call' = [call EXCEPT ![c].pc = "await",
                            ![c].variations = get_url_variations(call[c].url)]
    /\ UNCHANGED fsys
    /\ FetchFrame

\* for task in fetch_tasks: the next task is awaited
AwaitTask(c) ==
    /\ call[c].pc = "await"
    /\ call[c].awaited < Len(call[c].variations)
    /\ \E kind \in Allowed(call[c].awaited + 1) :
        LET task_url == call[c].variations[call[c].awaited + 1]
        IN /\ Success(kind) => ParseUrl(task_url).ok
           /\ call' = [call EXCEPT
                ![c].awaited = @ + 1,
                ![c].results =
                    IF Success(kind)
                    THEN Append(@, [url |-> task_url,
                                    content |-> Response(c, kind),
                                    is_html |-> is_html(kind),
                                    is_markdown |-> is_markdown(kind)])
                    ELSE @,
                ![c].errors =
                    IF kind \in {"http_error", "network_error"}
                    THEN Append(@, kind)
                    ELSE @]
    /\ UNCHANGED fsys
    /\ FetchFrame

\* mutant of the order: .gitignore ensured before results.is_empty() is
\* looked at
NotFoundAfterGitignore(c) ==
    /\ call[c].pc = "await"
    /\ call[c].awaited = Len(call[c].variations)
    /\ call[c].results = <<>>
    /\ Returns(c, Err("resource_not_found"))
    /\ fsys' = IF ensure_gitignore(fsys, CacheDir).ok
               THEN ensure_gitignore(fsys, CacheDir).val
               ELSE fsys
    /\ FetchFrame

\* if results.is_empty() { return Err(McpError::resource_not_found(..)) }
NotFound(c) ==
    /\ call[c].pc = "await"
    /\ call[c].awaited = Len(call[c].variations)
    /\ call[c].results = <<>>
    /\ Returns(c, Err("resource_not_found"))
    /\ UNCHANGED fsys
    /\ FetchFrame

\* ensure_gitignore(&self.cache_dir), then has_non_html
EnsureGitignore(c) ==
    /\ call[c].pc = "await"
    /\ call[c].awaited = Len(call[c].variations)
    /\ call[c].results # <<>>
    /\ LET ensured == ensure_gitignore(fsys, CacheDir)
       IN IF ensured.ok
          THEN /\ fsys' = ensured.val
               /\ call' = [call EXCEPT
                    ![c].pc = "loop",
                    ![c].next = 1,
                    ![c].has_non_html =
                        \E i \in DOMAIN call[c].results : ~call[c].results[i].is_html]
          ELSE /\ Returns(c, Err("Failed to create .gitignore"))
               /\ UNCHANGED fsys
    /\ FetchFrame

\* if has_non_html && result.is_html { continue; }
SkipHtml(c) ==
    /\ call[c].pc = "loop"
    /\ call[c].next <= Len(call[c].results)
    /\ call[c].has_non_html /\ call[c].results[call[c].next].is_html
    /\ call' = [call EXCEPT ![c].next = @ + 1]
    /\ UNCHANGED fsys
    /\ FetchFrame

\* content_to_save, url_to_path and create_dir_all of the parent
Prepare(c) ==
    /\ call[c].pc = "loop"
    /\ call[c].next <= Len(call[c].results)
    /\ ~(call[c].has_non_html /\ call[c].results[call[c].next].is_html)
    /\ \E fetched \in {call[c].results[call[c].next]} :
       \E file_path \in {url_to_path(CacheDir, fetched.url)} :
        IF ~file_path.ok
        THEN /\ Returns(c, Err("Failed to parse URL"))
             /\ UNCHANGED fsys
        ELSE \E made \in {create_dir_all(fsys, parent(file_path.val).val)} :
                IF ~made.ok
                THEN /\ Returns(c, Err("Failed to create directory"))
                     /\ UNCHANGED fsys
                ELSE /\ fsys' = made.val
                     /\ call' = [call EXCEPT
                            ![c].pc = "open",
                            ![c].content_to_save = ContentToSave(fetched),
                            ![c].converted =
                                IF fetched.is_html /\ ~fetched.is_markdown
                                THEN @ \cup {call[c].next}
                                ELSE @,
                            ![c].file_path = file_path.val]
    /\ FetchFrame

\* fs::write(&temp_path, ..), first half: the temp file is created or
\* truncated
OpenTemp(c) ==
    /\ call[c].pc = "open"
    /\ LET temp_path == with_extension(call[c].file_path, Tmp)
           opened == open_truncate(fsys, temp_path)
       IN IF opened.ok
          THEN /\ fsys' = opened.val.fs
               /\ call' = [call EXCEPT ![c].pc = "write", ![c].fd = opened.val.fd]
          ELSE /\ Returns(c, Err("Failed to write temp file"))
               /\ UNCHANGED fsys
    /\ FetchFrame

\* fs::write(&temp_path, ..), second half: the content is written and the
\* file closed
WriteTemp(c) ==
    /\ call[c].pc = "write"
    /\ fsys' = write_all(fsys, call[c].fd, call[c].content_to_save)
    /\ call' = [call EXCEPT ![c].pc = "rename", ![c].fd = 0]
    /\ FetchFrame

\* fs::rename(&temp_path, &file_path), and the FileInfo pushed
Rename(c) ==
    /\ call[c].pc = "rename"
    /\ LET temp_path == with_extension(call[c].file_path, Tmp)
           renamed == rename(fsys, temp_path, call[c].file_path)
           fetched == call[c].results[call[c].next]
       IN IF renamed.ok
          THEN /\ fsys' = renamed.val
               /\ call' = [call EXCEPT
                    ![c].pc = "loop",
                    ![c].next = @ + 1,
                    ![c].file_infos =
                        Append(@, [path |-> call[c].file_path,
                                   source_url |-> fetched.url,
                                   content_type |-> ContentType(fetched),
                                   characters |-> Len(call[c].content_to_save)])]
          ELSE /\ Returns(c, Err("Failed to finalize file"))
               /\ UNCHANGED fsys
    /\ FetchFrame

\* Ok(rmcp::Json(FetchOutput { files: file_infos }))
FetchReturn(c) ==
    /\ call[c].pc = "loop"
    /\ call[c].next > Len(call[c].results)
    /\ Returns(c, Ok(call[c].file_infos))
    /\ UNCHANGED fsys
    /\ FetchFrame

NextFetch ==
    \E c \in Callers :
        \/ Fetch(c)
        \/ AwaitTask(c)
        \/ NotFound(c)
        \/ EnsureGitignore(c)
        \/ SkipHtml(c)
        \/ Prepare(c)
        \/ OpenTemp(c)
        \/ WriteTemp(c)
        \/ Rename(c)
        \/ FetchReturn(c)

\* one caller calls fetch once, the tasks coming to anything
InitFetch ==
    /\ entry = "fetch"
    /\ pc = "serve"
    /\ shape = <<>>
    /\ url = <<>>
    /\ out = None
    /\ \E u \in UrlsFetch :
        call = [c \in Callers |-> IF c = 1 THEN NoCall(u) ELSE NoCall(<<>>)]
    /\ fsys = EmptyFs
    /\ net = <<AttemptKinds>>
    /\ TocIdle

SpecFetch == InitFetch /\ [][NextFetch]_vars

\* every caller calls fetch once, for the same page; the page itself is
\* HTML or fails, its .md is markdown or fails, nothing else is found
InitWriters ==
    /\ entry = "fetch"
    /\ pc = "serve"
    /\ shape = <<>>
    /\ url = <<>>
    /\ out = None
    /\ call = [c \in Callers |-> NoCall(Https \o ECo \o <<"/", "a">>)]
    /\ fsys = EmptyFs
    /\ net = <<{"html", "http_error"}, {"markdown", "http_error"}, {"http_error"}>>
    /\ TocIdle

SpecWriters == InitWriters /\ [][NextFetch]_vars

(***************************************************************************)
(* Claims                                                                  *)
(***************************************************************************)
Max(S) == CHOOSE m \in S : \A n \in S : n <= m

\* the levels of 1..=max_level whose rendering is non-empty and within budget
FittingLevels(hs, budget) ==
    {l \in 1..Max({hs[i].level : i \in DOMAIN hs}) :
        /\ render_toc(hs, l) # <<>>
        /\ Len(render_toc(hs, l)) <= budget}

\* C1: generate_toc returns None whenever total_bytes is below
\* config.full_content_threshold, whatever the text and its headings are; the
\* length of the text plays no part.
C1_BelowThresholdIsNone ==
    (pc = "done" /\ total_bytes < config.full_content_threshold) => result = None

\* C1 witness: a text at least as long as the threshold, with two headings, was
\* turned down on its size hint alone.
C1_Witness ==
    /\ pc = "done"
    /\ total_bytes < config.full_content_threshold
    /\ Len(markdown) >= config.full_content_threshold
    /\ Len(extract_headings(markdown, ParseEvents(doc))) >= 2
    /\ result = None

\* C2: whenever generate_toc returns Some(toc), toc is at most config.toc_budget
\* bytes long.
C2_TocWithinBudget ==
    (pc = "done" /\ result.some) => Len(result.val) <= config.toc_budget

\* C2 witness: a ToC of exactly toc_budget bytes was returned while the deepest
\* level of the document did not fit.
C2_Witness ==
    /\ pc = "done"
    /\ result.some
    /\ Len(result.val) = config.toc_budget
    /\ Len(render_toc(headings, MaxLevel(headings))) > config.toc_budget

\* C3: find_optimal_level returns None for the empty list and when no level
\* fits; otherwise it returns (L, render_toc(headings, L)) for the largest L of
\* 1..=max_level whose rendering is non-empty and within budget, also when a
\* shallower level is over budget.
C3_DeepestFittingLevel ==
    (pc = "selected" /\ entry = "find_optimal_level") =>
        IF headings = <<>> \/ FittingLevels(headings, config.toc_budget) = {}
        THEN found = None
        ELSE LET l == Max(FittingLevels(headings, config.toc_budget))
             IN found = Some([level |-> l, toc |-> render_toc(headings, l)])

\* C3 witness: a level was selected although a shallower level is over budget.
C3_Witness ==
    /\ pc = "selected"
    /\ entry = "find_optimal_level"
    /\ found.some
    /\ \E l \in 1..(found.val.level - 1) :
            Len(render_toc(headings, l)) > config.toc_budget

\* generate_toc on the document at hand, with another toc_budget
WithBudget(b) ==
    generate_toc(markdown, ParseEvents(doc), total_bytes,
                 [config EXCEPT !.toc_budget = b])

\* C4: for the document and threshold at hand, a budget above the one used
\* selects a level at least as deep and yields Some if the one used did; a
\* budget below it selects no deeper level and yields Some only if the one
\* used did.
C4_BudgetMonotone ==
    (pc = "done" /\ ~(total_bytes < config.full_content_threshold)) =>
        \A b \in Budgets :
            LET other == find_optimal_level(headings, b)
            IN /\ (b >= config.toc_budget /\ found.some) =>
                    other.some /\ other.val.level >= found.val.level
               /\ (b <= config.toc_budget /\ other.some) =>
                    found.some /\ found.val.level >= other.val.level
               /\ (b >= config.toc_budget /\ result.some) => WithBudget(b).some
               /\ (b <= config.toc_budget /\ WithBudget(b).some) => result.some

\* C4 witness: a larger budget selects a strictly deeper level than the one
\* selected.
C4_Witness ==
    /\ pc = "done"
    /\ found.some
    /\ \E b \in Budgets :
        /\ b > config.toc_budget
        /\ find_optimal_level(headings, b).val.level > found.val.level

\* C5: generate_toc returns None exactly when total_bytes is below the
\* threshold, or no heading was extracted, or no level fits toc_budget; in
\* every other case it returns Some of the rendering of the selected level.
C5_NoneExactlyInThreeCases ==
    pc = "done" =>
        LET tooSmall == total_bytes < config.full_content_threshold
            noHeadings == headings = <<>>
            noneFits == FittingLevels(headings, config.toc_budget) = {}
        IN IF tooSmall \/ noHeadings \/ noneFits
           THEN result = None
           ELSE result =
                    Some(render_toc(headings,
                                    Max(FittingLevels(headings, config.toc_budget))))

\* C5 witness: a document at or above the threshold, with headings, got no ToC
\* because not even its first level fits.
C5_Witness ==
    /\ pc = "done"
    /\ ~(total_bytes < config.full_content_threshold)
    /\ headings # <<>>
    /\ result = None

ToLF(d) == [i \in DOMAIN d |-> [d[i] EXCEPT !.eol = IF @ = "CRLF" THEN "LF" ELSE @]]

HeadingsOfLF == extract_headings(Unparse(ToLF(doc)), ParseEvents(ToLF(doc)))

RECURSIVE WithoutCR(_)
WithoutCR(s) ==
    IF s = <<>> THEN <<>>
    ELSE IF Head(s) = "CR" THEN WithoutCR(Tail(s))
    ELSE <<Head(s)>> \o WithoutCR(Tail(s))

\* the heading of a document handed to extract_headings: its last block
HeadingBlock == doc[Len(doc)]

\* C7 as stated: a document and the same document with LF for every CRLF
\* yield the same line numbers, levels and texts.
C7_SameHeadingsAsLF ==
    pc = "done" => headings = HeadingsOfLF

\* C7 as amended: they yield the same line numbers and levels, and texts that
\* are the same once the carriage returns are taken out of them; the texts of
\* ATX headings, which hold no line ending, are the same.
C7_SameLinesAndLevelsAsLF ==
    pc = "done" =>
        /\ Len(headings) = Len(HeadingsOfLF)
        /\ \A i \in DOMAIN headings :
            /\ headings[i].line_number = HeadingsOfLF[i].line_number
            /\ headings[i].level = HeadingsOfLF[i].level
            /\ WithoutCR(headings[i].text) = HeadingsOfLF[i].text
            /\ HeadingBlock.kind = "atx" => headings[i].text = HeadingsOfLF[i].text

\* C7 witness: a heading after a paragraph, both with CRLF line endings, was
\* extracted.
C7_Witness ==
    /\ pc = "done"
    /\ Len(doc) = 2
    /\ \A i \in DOMAIN doc : doc[i].eol = "CRLF"
    /\ Len(headings) = 1
    /\ headings[1].line_number = 3

\* the text the Text and Code events of a link add up to
RECURSIVE TextOf(_)
TextOf(evs) ==
    IF evs = <<>> THEN <<>>
    ELSE (IF Head(evs).kind \in {"Text", "Code"} THEN Head(evs).text ELSE <<>>)
         \o TextOf(Tail(evs))

\* a link whose accumulated text is empty or only white space and U+200B,
\* U+FEFF, U+200C, U+200D
EmptyTextLink(item) ==
    /\ item \in LinkItems
    /\ \A c \in {TextOf(InlineEvents(item, 0, "LF"))[i] :
                    i \in DOMAIN TextOf(InlineEvents(item, 0, "LF"))} :
            c \in {" ", "LF", "CR", "U+200B", "U+FEFF", "U+200C", "U+200D"}

\* a link that renders nothing visible: no text, or only invisible text
InvisibleLink(item) == item \in {"emptyLink", "zwspLink", "spaceLink"}

\* the bytes of the items, those of the items that Removed picks left out
RECURSIVE ItemsBytesWithout(_, _, _)
ItemsBytesWithout(Removed(_), items, eol) ==
    IF items = <<>> THEN <<>>
    ELSE (IF Removed(items[1]) THEN <<>> ELSE InlineBytes(items[1], eol))
         \o (IF Len(items) = 1 THEN <<>> ELSE <<" ">>)
         \o ItemsBytesWithout(Removed, Tail(items), eol)

\* the source of the heading, first byte to last, without those items, trimmed
HeadingSourceWithout(Removed(_), b) ==
    trim(HeadingPrefix(b) \o ItemsBytesWithout(Removed, b.items, b.eol)
         \o EolBytes(b.eol)
         \o (IF b.kind = "setext"
             THEN <<IF b.level = 1 THEN "=" ELSE "-">> \o EolBytes(b.eol)
             ELSE <<>>))

\* C8: the text of an emitted heading is its source substring without the
\* bytes of the links whose accumulated text is empty or invisible, nothing
\* put in their place, then trimmed; also with several such links.
C8_EmptyLinksCutOut ==
    (pc = "done" /\ headings # <<>>) =>
        headings[1].text = HeadingSourceWithout(EmptyTextLink, HeadingBlock)

\* C8 witness: a heading with two such links, after a paragraph, was emitted.
C8_Witness ==
    /\ pc = "done"
    /\ Len(doc) = 2
    /\ HeadingBlock.items = <<"zwspLink", "emptyLink">>
    /\ headings # <<>>

\* C9 as stated: a link whose visible content is not empty is kept byte for
\* byte, whatever events make up that content; only the links that render
\* nothing visible are cut out.
C9_VisibleLinksKept ==
    (pc = "done" /\ headings # <<>>) =>
        headings[1].text = HeadingSourceWithout(InvisibleLink, HeadingBlock)

\* C10 as stated: a heading whose content is only links that are cut out is
\* not emitted, be it an ATX or a setext heading.
C10_OnlyCutLinksDropped ==
    (/\ pc = "done"
     /\ HeadingBlock.items # <<>>
     /\ \A i \in DOMAIN HeadingBlock.items : EmptyTextLink(HeadingBlock.items[i]))
    => headings = <<>>

\* C11: every emitted heading has a text that is not empty and neither starts
\* nor ends with white space.
C11_TextTrimmedNonEmpty ==
    \A i \in DOMAIN headings :
        /\ headings[i].text # <<>>
        /\ headings[i].text[1] \notin WhitespaceBytes
        /\ headings[i].text[Len(headings[i].text)] \notin WhitespaceBytes

\* C11 witness: a heading whose source ends with a cut-out link, the space
\* before it and a CRLF line ending was emitted.
C11_Witness ==
    /\ pc = "done"
    /\ HeadingBlock.kind = "atx"
    /\ HeadingBlock.items = <<"word", "spaceLink">>
    /\ HeadingBlock.eol = "CRLF"
    /\ headings # <<>>

\* C12: the level of an emitted heading is in 1..6 and is the level carried by
\* the heading-start event that opened it, for each of H1 .. H6.
C12_LevelOfStartEvent ==
    [][Len(headings') > Len(headings) =>
        LET h == headings'[Len(headings')]
        IN /\ h.level \in 1..6
           /\ HeadingLevelOf(h.level) = current_heading.val.level
           /\ h.level = HeadingBlock.level]_vars

\* C12 witness: a heading of level 6 was emitted.
C12_Witness ==
    /\ pc = "done"
    /\ headings # <<>>
    /\ headings[1].level = 6

\* the headings of a document, in the order of the document
HeadingsOfDoc(d) == SelectSeq(d, LAMBDA b : b.kind # "para")

\* C13: the headings are emitted in the order of the document, their line
\* numbers never decrease along the list, and the last heading of every
\* level-filtered sublist has the highest line number of that sublist.
C13_DocumentOrderAscending ==
    /\ \A i, j \in DOMAIN headings :
            i <= j => headings[i].line_number <= headings[j].line_number
    /\ \A l \in 1..6 :
            LET f == FilterLevel(headings, l)
            IN f # <<>> =>
                f[Len(f)].line_number = Max({f[i].line_number : i \in DOMAIN f})
    /\ (pc \in {"select", "selected"}
        \/ (pc = "done" /\ ~(total_bytes < config.full_content_threshold))) =>
            /\ Len(headings) = Len(HeadingsOfDoc(doc))
            /\ \A i \in DOMAIN headings :
                    /\ headings[i].level = HeadingsOfDoc(doc)[i].level
                    /\ headings[i].text = trim(BlockBytes(HeadingsOfDoc(doc)[i]))

\* C13 witness: two headings were extracted, the deeper one first, on
\* different lines.
C13_Witness ==
    /\ pc = "done"
    /\ Len(headings) = 2
    /\ headings[1].level > headings[2].level
    /\ headings[1].line_number < headings[2].line_number

\* C14 to C16 are about render_toc on the list handed to find_optimal_level:
\* they are stated for the list as the scan finds it, before its first turn.

\* the headings that pass the filter of render_toc, in input order
Passing(hs, max_level) == SelectSeq(hs, LAMBDA h : h.level <= max_level)

Spaces(k) == [i \in 1..k |-> " "]

\* s starts with the bytes of e
StartsWith(s, e) == Len(s) >= Len(e) /\ SubSeq(s, 1, Len(e)) = e

\* an entry of the heading h: its line number after any number of spaces, the
\* arrow, the text unchanged
EntriesOf(s, h) ==
    LET blank == {k \in 0..Len(s) : \A i \in 1..k : s[i] = " "}
    IN {Spaces(k) \o Decimal(h.line_number) \o Arrow \o h.text : k \in blank}

\* s is one entry for each heading of f, in order, a single line feed between
\* two entries and none after the last
RECURSIVE OneEntryEach(_, _)
OneEntryEach(s, f) ==
    IF f = <<>> THEN s = <<>>
    ELSE \E e \in EntriesOf(s, Head(f)) :
            /\ StartsWith(s, e)
            /\ IF Len(f) = 1 THEN s = e
               ELSE /\ Len(s) > Len(e)
                    /\ s[Len(e) + 1] = "LF"
                    /\ OneEntryEach(SubSeq(s, Len(e) + 2, Len(s)), Tail(f))

\* the lines of s: the pieces between its line feeds
RECURSIVE SplitLines(_)
SplitLines(s) ==
    IF \A i \in DOMAIN s : s[i] # "LF" THEN <<s>>
    ELSE LET n == CHOOSE i \in DOMAIN s :
                    s[i] = "LF" /\ \A j \in 1..(i - 1) : s[j] # "LF"
         IN <<SubSeq(s, 1, n - 1)>> \o SplitLines(SubSeq(s, n + 1, Len(s)))

Ascending(hs) ==
    \A i, j \in DOMAIN hs : i <= j => hs[i].line_number <= hs[j].line_number

\* the byte at which the entry of f[i] starts in a rendering whose column is
\* w bytes wide
RECURSIVE EntryStart(_, _, _)
EntryStart(f, w, i) ==
    IF i = 1 THEN 0
    ELSE EntryStart(f, w, i - 1)
         + Max({w, Len(Decimal(f[i - 1].line_number))})
         + Len(Arrow) + Len(f[i - 1].text) + 1

\* C15: every line number is right-aligned in a column as wide as the decimal
\* digits of the last passing heading's line number, and at least 3 wide, the
\* arrow after it; when the line numbers ascend, every arrow of the rendering
\* stands at that width.
C15_RightAlignedColumn ==
    (pc = "select" /\ level = 1) =>
        \A l \in 1..6 :
            LET f == Passing(headings, l)
                r == render_toc(headings, l)
                w == Max({3, Len(Decimal(f[Len(f)].line_number))})
            IN f # <<>> =>
                \A i \in DOMAIN f :
                    LET d == Decimal(f[i].line_number)
                        col == Max({w, Len(d)})
                        at == EntryStart(f, w, i)
                    IN /\ SubSeq(r, at + 1, at + col) = Spaces(col - Len(d)) \o d
                       /\ SubSeq(r, at + col + 1, at + col + Len(Arrow)) = Arrow
                       /\ Ascending(headings) => col = w

\* C15 witness: a rendering of line numbers 1 and 1000, in a column of four.
C15_Witness ==
    /\ pc = "selected"
    /\ found.some
    /\ Len(headings) = 2
    /\ headings[1].line_number = 1
    /\ headings[2].line_number = 1000
    /\ found.val.level >= headings[2].level
    /\ found.val.level >= headings[1].level

\* the scan of find_optimal_level, were it to stop at the first level whose
\* rendering is over budget
RECURSIVE EarlyStopLoop(_, _, _, _)
EarlyStopLoop(hs, budget, lvl, b) ==
    IF lvl > MaxLevel(hs) THEN b
    ELSE LET rendered == render_toc(hs, lvl)
         IN IF rendered = <<>> THEN EarlyStopLoop(hs, budget, lvl + 1, b)
            ELSE IF Len(rendered) <= budget
                 THEN EarlyStopLoop(hs, budget, lvl + 1,
                                    Some([level |-> lvl, toc |-> rendered]))
                 ELSE b

EarlyStop(hs, budget) ==
    IF hs = <<>> THEN None ELSE EarlyStopLoop(hs, budget, 1, None)

\* a list as C16 describes it: at most as many headings down to level l as at
\* level l + 1, and every text of level l + 1 shorter than every text above it
LongShallowShortDeep(hs, l) ==
    LET shallow == Passing(hs, l)
        deep == SelectSeq(hs, LAMBDA h : h.level = l + 1)
    IN /\ shallow # <<>>
       /\ Len(deep) >= Len(shallow)
       /\ \A i \in DOMAIN shallow : \A j \in DOMAIN deep :
                Len(deep[j].text) < Len(shallow[i].text)

C17_FirstLevelOverBudgetIsNone ==
    (/\ pc = "done"
     /\ Len(render_toc(extract_headings(markdown, ParseEvents(doc)), 1))
            > config.toc_budget)
    => result = None

\* C17 witness: a document with a heading of level 1 and a deeper one, at or
\* above the threshold, whose level-1 rendering is over budget, got no ToC
\* after every level was tried.
C17_Witness ==
    /\ pc = "done"
    /\ ~(total_bytes < config.full_content_threshold)
    /\ Len(headings) = 2
    /\ headings[1].level = 1
    /\ headings[2].level > 1
    /\ Len(render_toc(headings, 1)) > config.toc_budget
    /\ level > headings[2].level
    /\ result = None

\* C20: for the document and threshold at hand, a ToC returned for a budget
\* at or above the one used is at least as long as the one returned, and a
\* ToC returned for a budget at or below it is at most as long.
C20_LargerBudgetLongerToc ==
    (pc = "done" /\ result.some) =>
        \A b \in Budgets :
            WithBudget(b).some =>
                /\ b >= config.toc_budget => Len(WithBudget(b).val) >= Len(result.val)
                /\ b <= config.toc_budget => Len(WithBudget(b).val) <= Len(result.val)

\* C20 witness: a larger budget yields a strictly longer ToC than the one
\* returned.
C20_Witness ==
    /\ pc = "done"
    /\ result.some
    /\ \E b \in Budgets :
        /\ b > config.toc_budget
        /\ WithBudget(b).some
        /\ Len(WithBudget(b).val) > Len(result.val)

\* C18: generate_toc comes to its end, and it panics only on an event whose
\* range starts off a char boundary or beyond the text, which no range of the
\* parser does: not on unterminated headings or links, not on ranges that
\* overlap or move backward, not on exclusion ranges outside the heading.
C18_TerminatesWithoutPanic ==
    /\ [](pc = "extract" =>
            \A ev \in Pending :
                (ev.start <= Len(markdown) /\ is_char_boundary(markdown, ev.start))
                    => SliceOk(markdown, X, ev))
    /\ <>(pc \in {"done", "panic"})

\* C18 witness: a ToC was returned for a stream that ends inside a heading
\* whose range starts before an earlier event's.
C18_Witness ==
    /\ pc = "done"
    /\ result.some
    /\ current_heading.some
    /\ ~in_order

\* C19: what a call of generate_toc returns is determined by its arguments
\* alone, whatever calls came before it: two calls with the same markdown,
\* total_bytes and config return the same bytes.
C19_ResultOfArgumentsAlone ==
    pc = "done" =>
        result = generate_toc(markdown, ParseEvents(doc), total_bytes, config)

\* C19 witness: a call on a document without headings returned None after an
\* earlier call had selected a level.
C19_Witness ==
    /\ pc = "done"
    /\ ~(total_bytes < config.full_content_threshold)
    /\ headings = <<>>
    /\ best.some
    /\ result = None

OneH1(d) ==
    /\ Cardinality({i \in DOMAIN d : d[i].kind # "para"}) = 1
    /\ \A i \in DOMAIN d : d[i].kind # "para" => d[i].level = 1

\* the document was at or above the threshold, holds exactly one heading, an
\* H1, and the rendering of that heading is within the budget
OneH1Fits ==
    /\ pc = "done"
    /\ ~below_threshold(markdown, total_bytes, config)
    /\ OneH1(doc)
    /\ extract_headings(markdown, ParseEvents(doc)) # <<>>
    /\ Len(render_toc(extract_headings(markdown, ParseEvents(doc)), 1))
            <= config.toc_budget

C24_LineTrackingMonotone ==
    [][/\ last_pos' >= last_pos
       /\ current_line' >= current_line
       /\ current_line' = current_line + CountNewlines(markdown, last_pos, last_pos')
       /\ consumed' # consumed =>
            /\ \E ev \in Pending : X' = ExtractStep(markdown, X, ev)
            /\ \A ev \in Pending :
                X' = ExtractStep(markdown, X, ev) =>
                    IF ev.start <= last_pos
                    THEN last_pos' = last_pos /\ current_line' = current_line
                    ELSE /\ last_pos' = ev.start
                         /\ current_line' =
                                current_line
                                + Cardinality({i \in (last_pos + 1)..ev.start :
                                                  markdown[i] = "LF"})]_vars

\* C24 witness: a heading whose range starts at byte 0 was opened after an
\* event past the first line ending had moved last_pos and current_line on.
C24_Witness ==
    /\ pc = "extract"
    /\ source = "robust"
    /\ ~in_order
    /\ current_heading.some
    /\ current_heading.val.start = 0
    /\ current_heading.val.line_number = 2
    /\ current_line = 2
    /\ last_pos >= 2

\* the sum of the lengths of the ranges
RECURSIVE RangesLen(_)
RangesLen(ranges) ==
    IF ranges = <<>> THEN 0
    ELSE Head(ranges).end - Head(ranges).start + RangesLen(Tail(ranges))

\* the bytes of md from a to b without the bytes inside any of the ranges
Uncut(md, a, b, ranges) ==
    LET keep == {i \in (a + 1)..b :
                    \A k \in DOMAIN ranges :
                        ~(ranges[k].start < i /\ i <= ranges[k].end)}
        RECURSIVE Build(_)
        Build(i) == IF i > b THEN <<>>
                    ELSE (IF i \in keep THEN <<md[i]>> ELSE <<>>) \o Build(i + 1)
    IN Build(a + 1)

\* C26: when a heading is about to end, the exclusion ranges recorded for it
\* are in ascending order, pairwise non-overlapping and inside the heading's
\* byte span; the text emitted is the heading's source substring without the
\* bytes of the ranges, every other byte copied once and in order, trimmed,
\* and so never longer than the substring.
C26_RangesAscendingDisjointInside ==
    (/\ pc = "extract"
     /\ current_heading.some
     /\ events # <<>>
     /\ Head(events).kind = "EndHeading") =>
        LET h == current_heading.val
            r == h.empty_link_ranges
            e == Head(events).end
            text == HeadingText(markdown, h, e)
        IN /\ \A k \in DOMAIN r :
                /\ h.start <= r[k].start
                /\ r[k].start < r[k].end
                /\ r[k].end <= e
           /\ \A k \in 1..(Len(r) - 1) : r[k].end <= r[k + 1].start
           /\ text = trim(Uncut(markdown, h.start, e, r))
           /\ Len(text) <= (e - h.start) - RangesLen(r)

\* C26 witness: a heading with two exclusion ranges is about to end.
C26_Witness ==
    /\ pc = "extract"
    /\ current_heading.some
    /\ Len(current_heading.val.empty_link_ranges) = 2
    /\ events # <<>>
    /\ Head(events).kind = "EndHeading"
    /\ HeadingText(markdown, current_heading.val, Head(events).end) # <<>>

\* C25: a heading that ends while a link is open ends without error; the
\* open link adds no exclusion range, so the heading is emitted with the
\* text of its source without the ranges of the links closed before, the
\* source of the open link kept; the heading that starts next has no open
\* link and no exclusion ranges.
C25_UnclosedLinkDiscarded ==
    [][(pc = "extract" /\ events # <<>>) =>
        /\ (/\ Head(events).kind = "EndHeading"
            /\ current_heading.some
            /\ current_heading.val.current_link.some) =>
                LET h == current_heading.val
                    e == Head(events).end
                    link == h.current_link.val
                    text == trim(Uncut(markdown, h.start, e, h.empty_link_ranges))
                IN /\ pc' = "extract"
                   /\ current_heading' = None
                   /\ headings' = Append(headings,
                                         [level |-> level_num(h.level),
                                          line_number |-> h.line_number,
                                          text |-> text])
                   /\ \E at \in 0..Len(text) :
                        SubSeq(text, at + 1, at + (e - 1 - link.start))
                            = SubSeq(markdown, link.start + 1, e - 1)
        /\ Head(events).kind = "StartHeading" =>
                /\ current_heading'.some
                /\ current_heading'.val.current_link = None
                /\ current_heading'.val.empty_link_ranges = <<>>]_vars

\* C25 witness: the first heading ended with its empty link open and was
\* emitted with the source of the link in its text, and the second heading
\* is open with no link and no exclusion ranges.
C25_Witness ==
    /\ pc = "extract"
    /\ doc[1].items = <<"emptyLink">>
    /\ Len(headings) = 1
    /\ headings[1].text = <<"#", " ", "[", "]", "(", "u", ")">>
    /\ current_heading.some
    /\ current_heading.val.level = "H2"
    /\ current_heading.val.current_link = None
    /\ current_heading.val.empty_link_ranges = <<>>

\* s ends in the suffix, in any mix of upper and lower case
EndsInAnyCase(s, suffix) ==
    /\ Len(s) >= Len(suffix)
    /\ \A i \in DOMAIN suffix :
        LET c == s[Len(s) - Len(suffix) + i]
        IN \/ c = suffix[i]
           \/ \E k \in DOMAIN LowerChars : LowerChars[k] = suffix[i] /\ UpperChars[k] = c

\* the URL without its trailing slashes: what is left of it before a run of
\* slashes at its end, not ending in a slash itself
IsBaseOf(base, u) ==
    /\ Len(base) <= Len(u)
    /\ SubSeq(u, 1, Len(base)) = base
    /\ \A i \in (Len(base) + 1)..Len(u) : u[i] = "/"
    /\ base # <<>> => base[Len(base)] # "/"

\* the URL is one of github.com in any spelling of the host
GitHubUrl(u) ==
    /\ u.scheme
    /\ Len(u.host) = Len(GitHubDomain)
    /\ EndsInAnyCase(u.host, GitHubDomain)

\* C23: get_url_variations returns a non-empty list whose first element is
\* the URL; only that element when the URL ends in .md or .txt in any case
\* or contains "?"; for any other URL that is not a GitHub URL the URL,
\* base.md, base/index.md, base/llms.txt and base/llms-full.txt in this
\* order, base being the URL without its trailing slashes.
C23_VariationsInOrder ==
    (entry = "get_url_variations" /\ pc = "done") =>
        /\ out.some
        /\ out.val # <<>>
        /\ out.val[1] = url
        /\ IF \/ EndsInAnyCase(url, DotMd)
              \/ EndsInAnyCase(url, DotTxt)
              \/ \E i \in DOMAIN url : url[i] = "?"
           THEN out.val = <<url>>
           ELSE ~GitHubUrl(shape) =>
                    \E k \in 0..Len(url) :
                        LET base == SubSeq(url, 1, k)
                        IN /\ IsBaseOf(base, url)
                           /\ out.val = <<url, base \o DotMd, base \o SlashIndexMd,
                                          base \o SlashLlms, base \o SlashLlmsFull>>

\* C23 witness: a URL with two trailing slashes, not of GitHub, got five
\* variations.
C23_Witness ==
    /\ entry = "get_url_variations"
    /\ pc = "done"
    /\ shape.slashes = 2
    /\ shape.segs # <<>>
    /\ shape.suffix = <<".", "m", "d", "x">>
    /\ ~GitHubUrl(shape)
    /\ Len(out.val) = 5

\* the file or directory a path names: "." left out, ".." taking back the
\* component before it
RECURSIVE Resolved(_, _)
Resolved(done, path) ==
    IF path = <<>> THEN done
    ELSE IF Head(path) = Dot THEN Resolved(done, Tail(path))
    ELSE IF Head(path) = DotDot
    THEN Resolved(IF done = <<>> THEN <<>> ELSE SubSeq(done, 1, Len(done) - 1),
                  Tail(path))
    ELSE Resolved(Append(done, Head(path)), Tail(path))

\* the path names a file or directory below base
InsideDir(path, base) ==
    /\ Len(Resolved(<<>>, path)) > Len(base)
    /\ SubSeq(Resolved(<<>>, path), 1, Len(base)) = base

\* the file name holds no unsafe char but the "?" that the code puts before
\* the query
OnlySeparatorUnsafe(name) ==
    \A i \in DOMAIN name :
        name[i] \in UnsafeChars =>
            (name[i] = "?" /\ \A j \in 1..(i - 1) : name[j] # "?")

\* C22 as stated: every path url_to_path returns lies inside base_dir; a URL
\* path with a "." or ".." component yields an error; the chars
\* / \ : * ? " < > | of the query are replaced before they enter the file
\* name.
C22_PathInsideBaseDir ==
    (entry = "url_to_path" /\ pc = "done") =>
        /\ out.ok => InsideDir(out.val, CacheDir)
        /\ (shape.scheme /\ \E i \in DOMAIN shape.segs :
                                shape.segs[i] \in {Dot, DotDot}) => ~out.ok
        /\ out.ok => OnlySeparatorUnsafe(out.val[Len(out.val)])

\* C29: a call of fetch whose every variation failed, by an error status, a
\* network error or a failed task, has returned a resource-not-found error
\* and has left the file system as it was: no .gitignore, no directory and
\* no file made.
C29_AllFailedNothingWritten ==
    \A c \in Callers :
        (call[c].pc = "returned" /\ call[c].results = <<>>) =>
            /\ call[c].ret = Some(Err("resource_not_found"))
            /\ fsys = EmptyFs

\* C29 witness: five variations failed, one by an error status, one by a
\* network error, one by its task failing, and the call has returned.
C29_Witness ==
    /\ call[1].pc = "returned"
    /\ Len(call[1].variations) = 5
    /\ call[1].awaited = 5
    /\ call[1].results = <<>>
    /\ \E i, j \in DOMAIN call[1].errors :
        call[1].errors[i] = "http_error" /\ call[1].errors[j] = "network_error"
    /\ Len(call[1].errors) < 5
    /\ call[1].ret = Some(Err("resource_not_found"))

\* the i-th result of the call of c is listed in the output of the call
Listed(c, i) ==
    /\ call[c].ret.some
    /\ call[c].ret.val.ok
    /\ \E k \in DOMAIN call[c].ret.val.val :
        call[c].ret.val.val[k].source_url = call[c].results[i].url

\* the cache holds a file for the i-th result of the call of c
Cached(c, i) ==
    /\ url_to_path(CacheDir, call[c].results[i].url).ok
    /\ url_to_path(CacheDir, call[c].results[i].url).val \in DOMAIN fsys.names

\* C28, first half: when a successful variation is not HTML, no HTML result
\* of the call was converted, written to the cache or listed.
C28_HtmlPassedOver ==
    \A c \in Callers :
        (/\ call[c].pc = "returned"
         /\ \E i \in DOMAIN call[c].results : ~call[c].results[i].is_html) =>
            \A i \in DOMAIN call[c].results :
                call[c].results[i].is_html =>
                    /\ i \notin call[c].converted
                    /\ ~Cached(c, i)
                    /\ ~Listed(c, i)

\* C28 as stated: the first half, and when every successful variation is
\* HTML, each of them was converted, written and listed.
C28_HtmlFilter ==
    /\ C28_HtmlPassedOver
    /\ \A c \in Callers :
        (/\ call[c].pc = "returned"
         /\ call[c].results # <<>>
         /\ \A i \in DOMAIN call[c].results : call[c].results[i].is_html) =>
            \A i \in DOMAIN call[c].results :
                /\ i \in call[c].converted
                /\ Cached(c, i)
                /\ Listed(c, i)

\* the case of C28 that fails: every variation of a page whose name has an
\* extension came back as HTML of content-type text/html alone, and the
\* call returned an error
C28_AllHtmlCallFailed ==
    \E c \in Callers :
        /\ call[c].pc = "returned"
        /\ Len(call[c].results) = 5
        /\ \A i \in DOMAIN call[c].results :
            call[c].results[i].is_html /\ ~call[c].results[i].is_markdown
        /\ ~call[c].ret.val.ok

\* the cache files: every name of the file system but the temp files and
\* .gitignore
CacheFiles ==
    {p \in DOMAIN fsys.names :
        /\ p[Len(p)] # GitignoreName
        /\ extension(p[Len(p)]) # Some(Tmp)}

\* C27, the content: a cache file always holds the whole content of one of
\* the calls, never a part or a mix
C27_NoMixedContent ==
    \A p \in CacheFiles :
        \E c \in Callers : fsys.data[fsys.names[p]] = Body(c)

\* C27, the completion: every call that fetched something completes its
\* writes and returns Ok
C27_EveryWriterCompletes ==
    \A c \in Callers :
        (call[c].pc = "returned" /\ call[c].results # <<>>) =>
            call[c].ret.val.ok

\* C27 as stated: with concurrent calls of fetch writing the same cache
\* path through a temp file and a rename, no cache file is left with partial
\* or mixed content, and each call completes its write successfully.
C27_AtomicCacheWrites == C27_NoMixedContent /\ C27_EveryWriterCompletes

====
